---- MODULE Spec2Model ----
(***************************************************************************)
(* A model of the G2P training recipe recipes/LibriSpeech/G2P/train.py:    *)
(* the curriculum driver (the train_steps loop of __main__), the G2PBrain  *)
(* stage handlers (on_stage_start, fit_batch, evaluate_batch,              *)
(* on_stage_end), the loss composition of compute_objectives and the       *)
(* checkpoint / report side effects of the VALID and TEST stage ends.      *)
(*                                                                         *)
(* Numbers.  Losses are exact rationals written in units of 1/WDen: a      *)
(* weight w of the hyperparameter file is the integer w * WDen, and a      *)
(* composed loss is the integer loss * WDen.  A stage loss (the running    *)
(* average kept by the fit loop) is written in units of 1/(WDen*n) for the *)
(* n batches of the stage, i.e. as the sum of the batch losses.  Error     *)
(* rates are percentages (0..100).                                         *)
(***************************************************************************)
EXTENDS Integers, Sequences, FiniteSets, TLC

\* ------------------------------------------------------------------ bounds
\* number of configured training steps (hparams["train_steps"])
NumSteps == 2
\* largest epoch budget (epoch_counter.limit) of a step
MaxEpochs == 4
\* batches of every data loader (train, valid, test)
NumBatches == 2

\* items of a dataset file (ids 1..MaxItems)
MaxItems == 3

\* denominator of the fixed-point weights (ctc_weight, homograph_loss_weight)
WDen == 4

\* ------------------------------------------------------ values and records
\* Python's None for an epoch number / a metric that is absent
NoEpoch == 0
NoVal == -1

TRAIN == "TRAIN"
VALID == "VALID"
TEST == "TEST"

\* TrainMode (Enum)
NORMAL == "normal"
HOMOGRAPH == "homograph"
TrainMode == {NORMAL, HOMOGRAPH}

Max(a, b) == IF a >= b THEN a ELSE b
Min(a, b) == IF a <= b THEN a ELSE b

RECURSIVE SumSeq(_)
SumSeq(s) == IF s = <<>> THEN 0 ELSE Head(s) + SumSeq(Tail(s))

\* A metric accumulator object (MetricStats / ErrorRateStats): an attribute of
\* the brain that is either unset (never assigned on this instance) or holds
\* the scores appended since it was created.
UnsetAcc == [def |-> FALSE, items |-> <<>>]
FreshAcc == [def |-> TRUE, items |-> <<>>]
AccAppend(acc, x) == [acc EXCEPT !.items = Append(@, x)]

\* MetricStats.summarize("average"): mean of the appended values, here in
\* units of 1/n (the sum), 0 for an empty stage
SummarizeAverage(acc) == SumSeq(acc.items)

\* ErrorRateStats.summarize("error_rate"): 100 * edits / reference tokens; each
\* appended score is the edit count of a batch holding RefTokens tokens
RefTokens(acc) == Len(acc.items)
SummarizeErrorRate(acc) ==
    IF RefTokens(acc) = 0 THEN 0 ELSE (100 * SumSeq(acc.items)) \div RefTokens(acc)

VARIABLES
    hparams,        \* the loaded hyperparameters (read-only after load)
    train_steps,    \* hparams["train_steps"]: the configured steps, in order
    inputs,         \* the value sets the model / data can produce per batch
    epoch_counter,  \* train_step["epoch_counter"].current of every step
    pc,             \* position of the single thread of control
    err,            \* the exception that ended the run ("none" while running)
    step,           \* index of the train_steps element the loop is at
    call,           \* the Brain method running: none / fit / revalidate / test
    stage,          \* sb.Stage of the running stage
    epoch,          \* the epoch argument handed to the stage handlers
    batch_idx,      \* batches of the running stage processed so far
    loss_sum,       \* running stage loss of the fit / evaluate loop
    brain,          \* the G2PBrain instance of the running step
    optimizer,      \* parameters (count of updates), learning rate, gradients
    sched,          \* state of hparams.lr_annealing (last anchor value)
    separators,     \* word separators set on homograph_cost / _extractor
    checkpoints,    \* hparams["checkpointer"]: the checkpoints on disk
    n_saved,        \* checkpoints saved so far (recency order)
    loaded,         \* checkpoint recovered by the last evaluate call
    reports,        \* report files written
    exported,       \* save_for_pretrained calls: min_key used, per step
    started,        \* history: steps the loop has visited, in order
    counts,         \* history: per-step activity counters
    last,           \* history: what the last batch call did
    last_end,       \* history: what the last on_stage_end call did
    min_saved,      \* history: smallest PER / PER_homograph ever saved
    train_data      \* the running step's train data: the ids data_load read
                    \* (file), those sort_data returned (sampled) and those
                    \* dataio_prep returns (ids)

vars == <<hparams, train_steps, inputs, epoch_counter, pc, err, step, call,
          stage, epoch, batch_idx, loss_sum, brain, optimizer, sched,
          separators, checkpoints, n_saved, loaded, reports, exported,
          started, counts, last, last_end, min_saved, train_data>>

config == <<hparams, train_steps, inputs>>

\* ----------------------------------------------------------- configuration
\* Learning-rate schedulers that hparams.lr_annealing can be: none (None),
\* newbob (NewBobScheduler), plateau (ReduceLROnPlateau), epoch_sched (any
\* scheduler called with the epoch), noam (a per-update scheduler called
\* with the optimizer).
Annealers == {"none", "newbob", "plateau", "epoch_sched", "noam"}

\* hparams["sorting"] values the recipe accepts
SupportedSorting == {"random", "ascending", "descending"}

\* hparams.get("sample") / train_step.get("sample") when there is no "sample"
\* key (None)
NoSample == -1

\* hparams has no "origins" key
NoOrigins == <<"absent">>

\* The hyperparameter file's defaults, as G2PBrain.__init__ and __main__ read
\* them.  mode is the top-level "mode" key and origins the top-level "origins"
\* key: its text as the sequence of its characters, NoOrigins when the file
\* has no such key.
DefaultHparams ==
    [has_ctc |-> TRUE, ctc_weight |-> 1, homograph_loss_weight |-> 2,
     enable_metrics |-> TRUE, ckpt_enable |-> TRUE, ckpt_frequency |-> 1,
     enable_interim_reports |-> FALSE, lr_annealing |-> "none",
     lr_annealing_mode |-> "epoch", revalidate |-> FALSE, retest |-> FALSE,
     save_for_pretrained |-> FALSE, mode |-> "absent", sorting |-> "random",
     use_tensorboard |-> FALSE, phn_tokenize |-> FALSE,
     origins |-> NoOrigins, sample |-> NoSample]

\* One element of hparams["train_steps"]; name is its position in the list.
TrainStep(name, limit, mode, ctc_epochs) ==
    [name |-> name, limit |-> limit, mode |-> mode, ctc_epochs |-> ctc_epochs,
     lr_annealing |-> "absent", sample |-> NoSample, sample_random |-> FALSE]

\* phoneme_encoder.lab2ind[" "] and hparams.token_space_index
space_index == 1
token_space_index == 2

\* learning rate the optimizer is created with
InitialLR == 8

\* ------------------------------------------------------------ the G2PBrain
\* self.train_loss before the first TRAIN stage end: the attribute is absent
NoBrain ==
    [alive |-> FALSE, train_step_name |-> 0, mode |-> NORMAL, has_ctc |-> FALSE,
     phn_tokenize |-> FALSE, lr_annealing_mode |-> "epoch",
     lr_annealing |-> "none", ckpt_frequency |-> 1, enable_metrics |-> TRUE,
     start_epoch |-> NoEpoch, train_loss |-> NoVal,
     seq_metrics |-> UnsetAcc, per_metrics |-> UnsetAcc,
     seq_metrics_homograph |-> UnsetAcc, per_metrics_homograph |-> UnsetAcc,
     classification_metrics_homograph |-> UnsetAcc]

\* G2PBrain.__init__ for train_steps[i].  The mode is read from the module
\* global train_step, which is the loop variable of __main__, i.e. the same
\* step.  getattr(self.train_step, "lr_annealing", default) is applied to a
\* dict, whose keys are not attributes, so it always yields the default.
G2PBrain(i) ==
    [NoBrain EXCEPT
        !.alive = TRUE,
        !.train_step_name = train_steps[i].name,
        !.has_ctc = hparams.has_ctc,
        !.mode = train_steps[i].mode,
        !.phn_tokenize = hparams.phn_tokenize,
        !.lr_annealing_mode = hparams.lr_annealing_mode,
        !.ckpt_frequency = hparams.ckpt_frequency,
        !.enable_metrics = hparams.enable_metrics,
        !.lr_annealing = hparams.lr_annealing,
        !.start_epoch = NoEpoch]

\* self.train_step: the configured step whose name is train_step_name
SelfTrainStep(b) ==
    train_steps[CHOOSE i \in 1..Len(train_steps) :
                    train_steps[i].name = b.train_step_name]

\* G2PBrain.is_ctc_active, with current_epoch = self.epoch_counter.current
is_ctc_active_lt(b, st, current_epoch) ==
    IF ~b.has_ctc \/ st # TRAIN
    THEN FALSE
    ELSE current_epoch < SelfTrainStep(b).ctc_epochs

is_ctc_active(b, st, current_epoch) ==
    IF ~b.has_ctc \/ st # TRAIN
    THEN FALSE
    ELSE current_epoch <= SelfTrainStep(b).ctc_epochs

\* G2PBrain.compute_forward: what the predictions tuple holds.  ctc_logprobs
\* is TRUE when the CTC head was run; hyps names the beam searcher that
\* decoded ("none" when no decoding took place).
compute_forward_main_searcher(b, st, current_epoch) ==
    [ctc_logprobs |-> (st = TRAIN /\ is_ctc_active(b, st, current_epoch)),
     hyps |-> IF st # TRAIN /\ b.enable_metrics
              THEN "beam_searcher" ELSE "none"]

compute_forward_lt(b, st, current_epoch) ==
    [ctc_logprobs |-> (st = TRAIN /\ is_ctc_active_lt(b, st, current_epoch)),
     hyps |-> IF st # TRAIN /\ b.enable_metrics
              THEN (IF st = VALID THEN "beam_searcher_valid" ELSE "beam_searcher")
              ELSE "none"]

compute_forward(b, st, current_epoch) ==
    [ctc_logprobs |-> (st = TRAIN /\ is_ctc_active(b, st, current_epoch)),
     hyps |-> IF st # TRAIN /\ b.enable_metrics
              THEN (IF st = VALID THEN "beam_searcher_valid" ELSE "beam_searcher")
              ELSE "none"]

\* The loss of G2PBrain.compute_objectives for a batch whose sequence cost is
\* x.seq, CTC cost x.ctc and homograph cost x.hom: the composed loss (in units
\* of 1/WDen) and the terms that entered it.
objectives_hom_train_only(b, st, current_epoch, x) ==
    LET ctc == is_ctc_active(b, st, current_epoch)
        loss_seq == x.seq
        loss_ctc == x.ctc
        seq_weight == WDen - hparams.ctc_weight
        loss == IF ctc
                THEN seq_weight * loss_seq + hparams.ctc_weight * loss_ctc
                ELSE WDen * loss_seq
        hom == b.mode = HOMOGRAPH /\ st = TRAIN
        homograph_loss == hparams.homograph_loss_weight * x.hom
    IN  [loss |-> IF hom THEN loss + homograph_loss ELSE loss,
         ctc |-> ctc, homograph |-> hom]

objectives_weighted_seq(b, st, current_epoch, x) ==
    LET ctc == is_ctc_active(b, st, current_epoch)
        loss_seq == x.seq
        loss_ctc == x.ctc
        seq_weight == WDen - hparams.ctc_weight
        loss == IF ctc
                THEN seq_weight * loss_seq + hparams.ctc_weight * loss_ctc
                ELSE seq_weight * loss_seq
        hom == b.mode = HOMOGRAPH
        homograph_loss == hparams.homograph_loss_weight * x.hom
    IN  [loss |-> IF hom THEN loss + homograph_loss ELSE loss,
         ctc |-> ctc, homograph |-> hom]

objectives(b, st, current_epoch, x) ==
    LET ctc == is_ctc_active(b, st, current_epoch)
        loss_seq == x.seq
        loss_ctc == x.ctc
        seq_weight == WDen - hparams.ctc_weight
        loss == IF ctc
                THEN seq_weight * loss_seq + hparams.ctc_weight * loss_ctc
                ELSE WDen * loss_seq
        hom == b.mode = HOMOGRAPH
        homograph_loss == hparams.homograph_loss_weight * x.hom
    IN  [loss |-> IF hom THEN loss + homograph_loss ELSE loss,
         ctc |-> ctc, homograph |-> hom]

\* G2PBrain._add_homograph_metrics: the three homograph accumulators get the
\* batch (sub-sequence loss, sub-sequence edits, classification outcome)
add_homograph_metrics(b, x) ==
    IF ~b.seq_metrics_homograph.def THEN b
    ELSE LET b1 == [b EXCEPT !.seq_metrics_homograph = AccAppend(@, x.hom)]
         IN  IF ~b.per_metrics_homograph.def THEN b1
             ELSE LET b2 == [b1 EXCEPT
                                !.per_metrics_homograph = AccAppend(@, x.edits_h)]
                  IN  IF ~b.classification_metrics_homograph.def THEN b2
                      ELSE [b2 EXCEPT !.classification_metrics_homograph =
                                          AccAppend(@, x.edits_h)]

\* The "record losses for posterity" part of compute_objectives: the brain
\* after the batch was appended to the accumulators, one after the other; an
\* append to an accumulator that was never created raises, and the appends
\* before it have been made
record_metrics_any_stage(b, st, x) ==
    IF b.enable_metrics
    THEN LET b1 == [b EXCEPT !.seq_metrics = AccAppend(@, x.seq),
                             !.per_metrics = AccAppend(@, x.edits)]
         IN  IF b.mode = HOMOGRAPH THEN add_homograph_metrics(b1, x) ELSE b1
    ELSE b

record_metrics(b, st, x) ==
    IF b.enable_metrics /\ st # TRAIN
    THEN IF ~b.seq_metrics.def THEN b
         ELSE LET b1 == [b EXCEPT !.seq_metrics = AccAppend(@, x.seq)]
              IN  IF ~b.per_metrics.def THEN b1
                  ELSE LET b2 == [b1 EXCEPT !.per_metrics = AccAppend(@, x.edits)]
                       IN  IF b.mode = HOMOGRAPH
                           THEN add_homograph_metrics(b2, x) ELSE b2
    ELSE b

\* An append to an accumulator attribute that was never created raises
\* AttributeError
record_metrics_raises(b, st) ==
    /\ b.enable_metrics /\ st # TRAIN
    /\ \/ ~b.seq_metrics.def \/ ~b.per_metrics.def
       \/ /\ b.mode = HOMOGRAPH
          /\ \/ ~b.seq_metrics_homograph.def
             \/ ~b.per_metrics_homograph.def
             \/ ~b.classification_metrics_homograph.def

\* G2PBrain.on_stage_start: the brain after the accumulators were recreated
on_stage_start_keeps_per(b, st, ep) ==
    LET b1 == [b EXCEPT !.seq_metrics = FreshAcc,
                        !.start_epoch = IF @ = NoEpoch THEN ep ELSE @]
        b2 == IF b.enable_metrics /\ st # TRAIN /\ ~b.per_metrics.def
              THEN [b1 EXCEPT !.per_metrics = FreshAcc] ELSE b1
        b3 == IF b.enable_metrics /\ b.mode = HOMOGRAPH
              THEN [b2 EXCEPT !.seq_metrics_homograph = FreshAcc,
                              !.classification_metrics_homograph = FreshAcc]
              ELSE b2
    IN  IF b.enable_metrics /\ b.mode = HOMOGRAPH /\ st # TRAIN
        THEN [b3 EXCEPT !.per_metrics_homograph = FreshAcc] ELSE b3

on_stage_start(b, st, ep) ==
    LET b1 == [b EXCEPT !.seq_metrics = FreshAcc,
                        !.start_epoch = IF @ = NoEpoch THEN ep ELSE @]
        b2 == IF b.enable_metrics /\ st # TRAIN
              THEN [b1 EXCEPT !.per_metrics = FreshAcc] ELSE b1
        b3 == IF b.enable_metrics /\ b.mode = HOMOGRAPH
              THEN [b2 EXCEPT !.seq_metrics_homograph = FreshAcc,
                              !.classification_metrics_homograph = FreshAcc]
              ELSE b2
    IN  IF b.enable_metrics /\ b.mode = HOMOGRAPH /\ st # TRAIN
        THEN [b3 EXCEPT !.per_metrics_homograph = FreshAcc] ELSE b3

\* G2PBrain._set_word_separator: the separators set on hparams.homograph_cost
\* and hparams.homograph_extractor
set_word_separator_cost_only(b) ==
    LET word_separator_idx ==
            IF b.phn_tokenize THEN token_space_index ELSE space_index
        word_separator_base_idx == space_index
        both == [word_separator |-> word_separator_idx,
                 word_separator_base |-> word_separator_base_idx]
    IN  [homograph_cost |-> both,
         homograph_extractor |-> [word_separator |-> NoVal,
                                  word_separator_base |-> NoVal]]

set_word_separator(b) ==
    LET word_separator_idx ==
            IF b.phn_tokenize THEN token_space_index ELSE space_index
        word_separator_base_idx == space_index
        both == [word_separator |-> word_separator_idx,
                 word_separator_base |-> word_separator_base_idx]
    IN  [homograph_cost |-> both, homograph_extractor |-> both]

NoSeparators ==
    LET none == [word_separator |-> NoVal, word_separator_base |-> NoVal]
    IN  [homograph_cost |-> none, homograph_extractor |-> none]

\* ---------------------------------------------------------- checkpointing
\* metadata of a checkpoint: a dict with at most the keys PER, PER_homograph
\* (NoVal: the key is absent)
NoMeta == [PER |-> NoVal, PER_homograph |-> NoVal]

\* G2PBrain._has_homograph_per
has_homograph_per(ckpt) == ckpt.meta.PER_homograph # NoVal

\* ckpt_meta / min_keys / ckpt_predicate as on_stage_end assembles them at a
\* VALID stage end from per (the full-sequence error rate)
ckpt_meta(b, per) ==
    IF ~b.enable_metrics THEN NoMeta
    ELSE IF b.mode = HOMOGRAPH
         THEN [NoMeta EXCEPT !.PER_homograph = per]
         ELSE [NoMeta EXCEPT !.PER = per]

min_keys_none(b) == "none"

min_keys(b) ==
    IF ~b.enable_metrics THEN "none"
    ELSE IF b.mode = HOMOGRAPH THEN "PER_homograph" ELSE "PER"

ckpt_predicate_none(b) == "none"

ckpt_predicate(b) ==
    IF b.enable_metrics /\ b.mode = HOMOGRAPH THEN "_has_homograph_per" ELSE "none"

\* the checkpoint condition of on_stage_end (VALID stage only)
should_checkpoint_every_epoch(b, ep) == hparams.ckpt_enable

should_checkpoint(b, ep) ==
    hparams.ckpt_enable /\ ep % b.ckpt_frequency = 0

\* Checkpointer.save_and_keep_only(meta, min_keys, ckpt_predicate): the new
\* checkpoint is written, then of the checkpoints the predicate admits only
\* the best one under the minimization key stays (the most recent one when no
\* key is given, and among equals).
Admitted(ckpts, predicate) ==
    IF predicate = "none" THEN ckpts ELSE {c \in ckpts : has_homograph_per(c)}

Keyed(ckpts, key) ==
    IF key = "none" THEN ckpts ELSE {c \in ckpts : c.meta[key] # NoVal}

Better(c, d, key) ==
    IF key = "none" THEN c.id >= d.id
    ELSE \/ c.meta[key] < d.meta[key]
         \/ c.meta[key] = d.meta[key] /\ c.id >= d.id

Best(ckpts, key) ==
    {c \in Keyed(ckpts, key) : \A d \in Keyed(ckpts, key) : Better(c, d, key)}

save_and_keep_only(ckpts, new, key, predicate) ==
    LET all == ckpts \cup {new}
        candidates == Admitted(all, predicate)
    IN  (all \ candidates) \cup Best(candidates, key)

\* Checkpointer.recover_if_possible(min_key=...), called by Brain.evaluate:
\* the id of the best checkpoint carrying the key, 0 when there is none
recover_if_possible(ckpts, key) ==
    IF Best(ckpts, key) = {} THEN 0
    ELSE (CHOOSE c \in Best(ckpts, key) : TRUE).id

CkptById(ckpts, id) == CHOOSE c \in ckpts : c.id = id

\* ------------------------------------------------------------- schedulers
\* The rate a scheduler takes as the current one when it is called.  A
\* scheduler is configured once and shared by every training step, while each
\* step has an optimizer of its own; whether the scheduler reads the rate from
\* the optimizer or keeps its own record of the rate it last returned is not
\* fixed, so both are possible.
scheduler_rates(lr, sc) == {lr, sc.value}

\* hparams.lr_annealing called at a VALID stage end with value v, lr being the
\* rate the scheduler takes as current: the pair (old_lr, new_lr) it returns
\* and its state afterwards.  A plateau scheduler halves the rate when the
\* value did not improve on the last one; an epoch-indexed schedule lowers
\* the rate with the epoch.
Halve(lr) == Max(1, lr \div 2)

anneal(kind, v, lr, sc) ==
    IF kind \in {"newbob", "plateau"}
    THEN LET new == IF sc.anchor # NoVal /\ v >= sc.anchor THEN Halve(lr) ELSE lr
         IN  [old_lr |-> lr, new_lr |-> new,
              sched |-> [value |-> new, anchor |-> v]]
    ELSE LET new == Max(1, InitialLR - v)
         IN  [old_lr |-> lr, new_lr |-> new,
              sched |-> [value |-> new, anchor |-> sc.anchor]]

\* sb.nnet.schedulers.update_learning_rate(optimizer, new_lr)
update_learning_rate(opt, new_lr) == [opt EXCEPT !.lr = new_lr]

\* the "lr" entry of stats_meta that on_stage_end logs at a VALID stage end
stats_lr_after(old_lr, new_lr) == new_lr

stats_lr(old_lr, new_lr) == old_lr

\* a per-update scheduler called with the optimizer lowers its rate in place
anneal_step(lr) == Max(1, lr - 1)

\* what on_stage_end hands to the scheduler at a VALID stage end
annealing_argument_per(b) ==
    IF hparams.lr_annealing = "newbob" THEN "per"
    ELSE IF hparams.lr_annealing = "plateau" THEN "train_loss"
    ELSE "epoch"

annealing_argument(b) ==
    IF hparams.lr_annealing = "newbob" /\ b.enable_metrics THEN "per"
    ELSE IF hparams.lr_annealing = "plateau" THEN "train_loss"
    ELSE "epoch"

\* ------------------------------------------------------------------ reports
\* G2PBrain._get_report_path: train_step[key] for a final report, and that
\* file's basename under <output_folder>/reports/<step name>/<epoch>/ otherwise
get_report_path_flat(b, ep, key, final) ==
    [file |-> key, of_step |-> b.train_step_name,
     folder |-> [interim |-> FALSE, name |-> 0, epoch |-> NoEpoch]]

get_report_path(b, ep, key, final) ==
    [file |-> key, of_step |-> b.train_step_name,
     folder |-> IF final THEN [interim |-> FALSE, name |-> 0, epoch |-> NoEpoch]
                ELSE [interim |-> TRUE, name |-> b.train_step_name, epoch |-> ep]]

\* G2PBrain._write_reports: the files it writes
write_reports(b, ep, final) ==
    {get_report_path(b, ep, "wer_file", final)}
    \cup (IF b.mode = HOMOGRAPH
          THEN {get_report_path(b, ep, "homograph_stats_file", final)}
          ELSE {})

\* ------------------------------------------------------------ history records
\* a batch, as the costs and edit counts the model produces on it
NoBatch == [seq |-> 0, ctc |-> 0, hom |-> 0, edits |-> 0, edits_h |-> 0]

NoLast ==
    [stage |-> "NONE", of_step |-> 0, epoch |-> NoEpoch, x |-> NoBatch,
     loss |-> NoVal, ctc |-> FALSE, homograph |-> FALSE,
     ctc_logprobs |-> FALSE, hyps |-> "none",
     grad_ok |-> TRUE, params_before |-> 0, params_after |-> 0,
     grads_after |-> "zero", lr_before |-> 0, lr_after |-> 0,
     scheduler |-> "none"]

NoStats ==
    [epoch |-> NoEpoch, lr |-> NoVal, train_loss |-> NoVal, loss |-> NoVal,
     seq_loss |-> NoVal, PER |-> NoVal, seq_loss_homograph |-> NoVal,
     PER_homograph |-> NoVal]

NoEnd ==
    [stage |-> "NONE", of_step |-> 0, epoch |-> NoEpoch, call |-> "none",
     saved |-> FALSE, meta |-> NoMeta, min_key |-> "none", predicate |-> "none",
     stats |-> NoStats, annealed_with |-> "none", annealed_value |-> NoVal,
     lr_before |-> 0, lr_after |-> 0, params_before |-> 0, params_after |-> 0,
     interim |-> {}, final |-> {}, samples |-> FALSE, stage_loss |-> NoVal,
     scheduler |-> "none", returned |-> NoVal, returned_old |-> NoVal]

NoCounts ==
    [data_built |-> 0, brains |-> 0, forward |-> 0, stage_starts |-> 0,
     stage_ends |-> 0, saves |-> 0, reports |-> 0, exports |-> 0,
     skipped |-> 0, epochs |-> 0, revalidations |-> 0, tests |-> 0,
     test_ends |-> 0, anneals |-> 0]

\* --------------------------------------------------------------- the driver
\* the for loop of __main__ moves to the next element of train_steps
next_train_step_skipping(i) == i + 2

next_train_step(i) == i + 1

\* "if epochs < 1: continue"
should_skip_negative(epochs) == epochs < 0

should_skip(epochs) == epochs < 1

\* no dataset has been prepared yet
NoData == [of_step |-> 0, file |-> <<>>, sampled |-> <<>>, ids |-> <<>>]

\* The ids of a dataset file in file order: 1..MaxItems, rotated by k.  The
\* duration of an item is its id.
FileOrder(k) == [i \in 1..MaxItems |-> ((i + k - 1) % MaxItems) + 1]

\* data.filtered_sorted(sort_key="duration", reverse=...): the ids ordered by
\* duration
filtered_sorted(ids, reverse) ==
    LET n == Len(ids)
        asc == [k \in 1..n |->
                  CHOOSE x \in {ids[j] : j \in 1..n} :
                      Cardinality({j \in 1..n : ids[j] < x}) = k - 1]
    IN  IF reverse THEN [k \in 1..n |-> asc[n + 1 - k]] ELSE asc

\* "if sample:" for sample = train_step.get("sample")
sample_given_zero(sample) == sample # NoSample

sample_given(sample) == sample # NoSample /\ sample # 0

\* sample_ids[:sample]
slice_to(ids, n) ==
    IF n >= 0 THEN SubSeq(ids, 1, Min(n, Len(ids)))
    ELSE SubSeq(ids, 1, Max(0, Len(ids) + n))

\* random.shuffle(sample_ids) when it leaves the list in the order p
shuffled(ids, p) == [k \in 1..Len(ids) |-> ids[p[k]]]

\* the orders random.shuffle can leave a list of n ids in; the identity alone
\* when sort_data does not shuffle
Shuffles(ts, n) ==
    IF sample_given(ts.sample) /\ ts.sample_random
    THEN Permutations(1..n) ELSE {[k \in 1..n |-> k]}

\* sort_data(data, hparams, train_step) for a supported hparams["sorting"]:
\* the ids of the dataset it returns, in order
sort_data(ids, ts, p) ==
    LET sorted == IF hparams.sorting = "ascending"
                  THEN filtered_sorted(ids, FALSE)
                  ELSE IF hparams.sorting = "descending"
                  THEN filtered_sorted(ids, TRUE) ELSE ids
    IN  IF sample_given(ts.sample)
        THEN slice_to(IF ts.sample_random THEN shuffled(sorted, p) ELSE sorted,
                      ts.sample)
        ELSE sorted

\* the "origin" field of the dataset item with this id
ItemOrigin(id) == IF id % 2 = 1 THEN <<"a">> ELSE <<"b">>

\* set(origins.split(",")): the pieces of the text between consecutive commas
\* (and the text's two ends), empty pieces included
origins_split(origins) ==
    LET cuts == {0, Len(origins) + 1}
                \cup {i \in 1..Len(origins) : origins[i] = ","}
    IN  {SubSeq(origins, i + 1, j - 1) :
            <<i, j>> \in {c \in cuts \X cuts :
                             /\ c[1] < c[2]
                             /\ \A k \in cuts : ~(c[1] < k /\ k < c[2])}}

\* filter_origins(data, hparams): the items whose origin is one of
\* hparams["origins"], in their order; every item when the key is missing,
\* empty or "*"
filter_origins(ids) ==
    LET origins == hparams.origins
        kept(id) == ItemOrigin(id) \in origins_split(origins)
    IN  IF origins \notin {NoOrigins, <<>>, <<"*">>}
        THEN SelectSeq(ids, kept) ELSE ids

\* The end of dataio_prep: the dataset is filtered by origin when hparams has
\* an "origins" key, and once more when hparams has a "sample" count.
dataio_prep_filtered(ids) ==
    LET once == IF hparams.origins # NoOrigins THEN filter_origins(ids) ELSE ids
    IN  IF sample_given(hparams.sample) THEN filter_origins(once) ELSE once

\* dataio_prep / sort_data raise NotImplementedError for an unsupported
\* hparams["sorting"]
dataio_prep_accepts == FALSE

dataio_prep_raises == hparams.sorting \notin SupportedSorting

\* The loop head of __main__: the next configured step is skipped, or its data
\* pipeline is built and its G2PBrain created (with a new optimizer), or the
\* loop ends.
TrainStepLoop ==
    /\ pc = "loop"
    /\ LET i == next_train_step(step)
           over == i > Len(train_steps)
           skip == ~over /\ should_skip(train_steps[i].limit)
           fail == ~over /\ ~skip /\ dataio_prep_raises
           run == ~over /\ ~skip /\ ~fail
       IN  \E d \in inputs.data :
           \E p \in IF run THEN Shuffles(train_steps[i], Len(d))
                    ELSE {[k \in 1..Len(d) |-> k]} :
           /\ train_data' = IF run
                            THEN [of_step |-> i, file |-> d,
                                  sampled |-> sort_data(d, train_steps[i], p),
                                  ids |-> dataio_prep_filtered(
                                      sort_data(d, train_steps[i], p))]
                            ELSE train_data
           /\ pc' = IF over THEN "done"
                    ELSE IF skip THEN "loop"
                    ELSE IF fail THEN "failed" ELSE "fit"
           /\ err' = IF fail THEN "NotImplementedError" ELSE err
           /\ step' = IF over THEN step ELSE i
           /\ started' = IF over THEN started ELSE Append(started, i)
           /\ brain' = IF run THEN G2PBrain(i) ELSE brain
           /\ call' = IF run THEN "fit" ELSE call
           /\ optimizer' = IF run
                           THEN [optimizer EXCEPT !.lr = InitialLR, !.grads = "zero"]
                           ELSE optimizer
           /\ counts' = IF run
                        THEN [counts EXCEPT ![i].data_built = @ + 1,
                                            ![i].brains = @ + 1]
                        ELSE counts
    /\ UNCHANGED <<config, epoch_counter, stage, epoch, batch_idx, loss_sum,
                   sched, separators, checkpoints, n_saved, loaded, reports,
                   exported, last, last_end, min_saved>>

\* Brain.fit, "for epoch in epoch_counter": the counter advances and the TRAIN
\* stage of the epoch begins, or the budget is used up and fit returns.
EpochLoop ==
    /\ pc = "fit"
    /\ LET more == epoch_counter[step] < train_steps[step].limit
       IN  /\ epoch_counter' = IF more
                               THEN [epoch_counter EXCEPT ![step] = @ + 1]
                               ELSE epoch_counter
           /\ epoch' = IF more THEN epoch_counter[step] + 1 ELSE epoch
           /\ stage' = IF more THEN TRAIN ELSE stage
           /\ pc' = IF more THEN "stage_start" ELSE "after_fit"
           /\ call' = IF more THEN call ELSE "none"
           /\ counts' = IF more THEN [counts EXCEPT ![step].epochs = @ + 1]
                        ELSE counts
    /\ UNCHANGED <<config, train_data, err, step, batch_idx, loss_sum, brain, optimizer,
                   sched, separators, checkpoints, n_saved, loaded, reports,
                   exported, started, last, last_end, min_saved>>

\* G2PBrain.on_stage_start(stage, epoch)
OnStageStart ==
    /\ pc = "stage_start"
    /\ brain' = on_stage_start(brain, stage, epoch)
    /\ separators' = IF brain.mode = HOMOGRAPH
                     THEN set_word_separator(brain) ELSE separators
    /\ batch_idx' = 0
    /\ loss_sum' = 0
    /\ pc' = "batches"
    /\ last_end' = NoEnd
    /\ counts' = [counts EXCEPT ![brain.train_step_name].stage_starts = @ + 1]
    /\ UNCHANGED <<config, train_data, epoch_counter, err, step, call, stage, epoch,
                   optimizer, sched, checkpoints, n_saved, loaded, reports,
                   exported, started, last, min_saved>>

\* The optimizer part of G2PBrain.fit_batch after loss.backward(): the update
\* is made when check_gradients passes, the gradients are cleared, and a
\* per-update scheduler (lr_annealing_mode "step") is applied.
fit_batch_always_steps(opt, b, grad_ok) ==
    [params |-> opt.params + 1, grads |-> "zero",
     lr |-> IF hparams.lr_annealing # "none" /\ b.lr_annealing_mode = "step"
            THEN anneal_step(opt.lr) ELSE opt.lr]

fit_batch_anneals_always(opt, b, grad_ok) ==
    LET backward == [opt EXCEPT !.grads = "set"]
        stepped == IF grad_ok
                   THEN [backward EXCEPT !.params = @ + 1] ELSE backward
        cleared == [stepped EXCEPT !.grads = "zero"]
    IN  IF hparams.lr_annealing # "none"
        THEN [cleared EXCEPT !.lr = anneal_step(@)]
        ELSE cleared

\* The scheduler fit_batch calls with the optimizer after the update ("none"
\* when it calls none): hparams.lr_annealing in step mode.  The brain's own
\* lr_annealing attribute is never read.
fit_batch_scheduler(b) ==
    IF hparams.lr_annealing # "none" /\ b.lr_annealing_mode = "step"
    THEN hparams.lr_annealing ELSE "none"

fit_batch_optimizer(opt, b, grad_ok) ==
    LET backward == [opt EXCEPT !.grads = "set"]
        stepped == IF grad_ok
                   THEN [backward EXCEPT !.params = @ + 1] ELSE backward
        cleared == [stepped EXCEPT !.grads = "zero"]
    IN  IF fit_batch_scheduler(b) # "none"
        THEN [cleared EXCEPT !.lr = anneal_step(@)]
        ELSE cleared

\* the record of a batch call kept in the history variable last
BatchRecord(b, st, cur, x, pred, obj, grad_ok, opt, opt1) ==
    [stage |-> st, of_step |-> b.train_step_name, epoch |-> cur, x |-> x,
     loss |-> obj.loss, ctc |-> obj.ctc, homograph |-> obj.homograph,
     ctc_logprobs |-> pred.ctc_logprobs, hyps |-> pred.hyps,
     grad_ok |-> grad_ok, params_before |-> opt.params,
     params_after |-> opt1.params, grads_after |-> opt1.grads,
     lr_before |-> opt.lr, lr_after |-> opt1.lr,
     scheduler |-> IF st = TRAIN THEN fit_batch_scheduler(b) ELSE "none"]

\* G2PBrain.fit_batch(batch), and the running average of Brain.fit
FitBatch ==
    /\ pc = "batches" /\ stage = TRAIN /\ batch_idx < NumBatches
    /\ \E seq \in inputs.seq, ctc \in inputs.ctc, hom \in inputs.hom,
          grad_ok \in inputs.grad_ok :
        LET x == [seq |-> seq, ctc |-> ctc, hom |-> hom, edits |-> 0, edits_h |-> 0]
            cur == epoch_counter[brain.train_step_name]
            pred == compute_forward(brain, TRAIN, cur)
            obj == objectives(brain, TRAIN, cur, x)
            raises == obj.ctc /\ ~pred.ctc_logprobs
            opt1 == fit_batch_optimizer(optimizer, brain, grad_ok)
        IN  /\ pc' = IF raises THEN "failed" ELSE pc
            /\ err' = IF raises THEN "TypeError" ELSE err
            /\ optimizer' = IF raises THEN optimizer ELSE opt1
            /\ brain' = IF raises THEN brain ELSE record_metrics(brain, TRAIN, x)
            /\ loss_sum' = IF raises THEN loss_sum ELSE loss_sum + obj.loss
            /\ batch_idx' = IF raises THEN batch_idx ELSE batch_idx + 1
            /\ last' = BatchRecord(brain, TRAIN, cur, x, pred, obj, grad_ok, optimizer,
                                   IF raises THEN optimizer ELSE opt1)
            /\ counts' = [counts EXCEPT
                    ![brain.train_step_name].forward = @ + 1,
                    ![brain.train_step_name].skipped =
                        IF grad_ok \/ raises THEN @ ELSE @ + 1]
    /\ UNCHANGED <<config, train_data, epoch_counter, step, call, stage, epoch, sched,
                   separators, checkpoints, n_saved, loaded, reports, exported,
                   started, last_end, min_saved>>

\* The optimizer after G2PBrain.evaluate_batch: forward and loss only, no
\* backward pass and no update
evaluate_batch_steps(opt, b) == [opt EXCEPT !.params = @ + 1]

evaluate_batch_optimizer(opt, b) == opt

\* G2PBrain.evaluate_batch(batch, stage), and the running average of the
\* evaluation loop
EvaluateBatch ==
    /\ pc = "batches" /\ stage # TRAIN /\ batch_idx < NumBatches
    /\ \E seq \in inputs.seq, hom \in inputs.hom, edits \in inputs.edits,
          edits_h \in inputs.edits_h :
        LET x == [seq |-> seq, ctc |-> 0, hom |-> hom, edits |-> edits,
                  edits_h |-> edits_h]
            cur == epoch_counter[brain.train_step_name]
            pred == compute_forward(brain, stage, cur)
            obj == objectives(brain, stage, cur, x)
            raises == record_metrics_raises(brain, stage)
        IN  /\ pc' = IF raises THEN "failed" ELSE pc
            /\ err' = IF raises THEN "AttributeError" ELSE err
            /\ brain' = record_metrics(brain, stage, x)
            /\ loss_sum' = IF raises THEN loss_sum ELSE loss_sum + obj.loss
            /\ batch_idx' = IF raises THEN batch_idx ELSE batch_idx + 1
            /\ last' = BatchRecord(brain, stage, cur, x, pred, obj, TRUE, optimizer,
                                   evaluate_batch_optimizer(optimizer, brain))
            /\ counts' = [counts EXCEPT ![brain.train_step_name].forward = @ + 1]
    /\ optimizer' = evaluate_batch_optimizer(optimizer, brain)
    /\ UNCHANGED <<config, train_data, epoch_counter, step, call, stage, epoch,
                   sched, separators, checkpoints, n_saved, loaded, reports,
                   exported, started, last_end, min_saved>>

\* Reading an attribute that was never assigned on this brain instance (or the
\* local per when no branch bound it) ends on_stage_end with an exception,
\* after the effects that precede the read.
on_stage_end_raises(b, st) ==
    \/ st # TRAIN /\ b.enable_metrics /\ ~b.per_metrics.def
    \/ st = VALID /\ b.train_loss = NoVal
    \/ /\ st = VALID /\ b.enable_metrics
       /\ \/ ~b.seq_metrics.def
          \/ b.mode = HOMOGRAPH /\ ~b.per_metrics_homograph.def
          \/ b.mode = HOMOGRAPH /\ ~b.seq_metrics_homograph.def
    \/ /\ b.enable_metrics
       /\ st = TEST \/ (st = VALID /\ hparams.enable_interim_reports)
       /\ \/ ~b.seq_metrics.def
          \/ b.mode = HOMOGRAPH /\ ~b.classification_metrics_homograph.def

\* Whether the stage end handler meets an I/O failure: io is what the file
\* system does to this handler's writes.  save_and_keep_only is called
\* without any handler around it, and the report files are opened with a plain
\* open(file, "w").
io_fails(io, save, files) ==
    IF io = "save_fails" THEN save
    ELSE IF io = "report_fails" THEN files # {}
    ELSE FALSE

\* Where __main__ continues when exception e reaches it out of fit or
\* evaluate: its loop over train_steps has no try / except, so the process
\* ends.
uncaught_resumes(e) == "loop"

uncaught(e) == "failed"

\* where __main__ continues when an evaluate call returns: the test follows
\* the revalidation and the export follows the test
after_evaluate_again(c) == "after_reval"

after_evaluate(c) == IF c = "revalidate" THEN "after_reval" ELSE "after_test"

\* self.train_loss after on_stage_end(stage, stage_loss, epoch)
train_loss_kept(b, st, stage_loss) == b.train_loss

train_loss_after(b, st, stage_loss) ==
    IF st = TRAIN THEN stage_loss ELSE b.train_loss

\* The scheduler on_stage_end calls ("none" when it calls none):
\* hparams.lr_annealing at a VALID stage end in epoch mode.
on_stage_end_scheduler(b, st) ==
    IF st = VALID /\ hparams.lr_annealing # "none"
       /\ b.lr_annealing_mode = "epoch"
    THEN hparams.lr_annealing ELSE "none"

\* Where on_stage_end raises AttributeError, in the order of its reads
\* ("none" when it does not): summarizing per_metrics at its head; handing
\* self.train_loss to a ReduceLROnPlateau scheduler; assembling the statistics
\* after the learning rate was annealed; writing the accumulators into the
\* WER report or the homograph report, each after its file was opened.
on_stage_end_raise_at(b, st) ==
    IF st # TRAIN /\ b.enable_metrics /\ ~b.per_metrics.def
    THEN "summarize"
    ELSE IF /\ on_stage_end_scheduler(b, st) # "none"
            /\ annealing_argument(b) = "train_loss"
            /\ b.train_loss = NoVal
    THEN "anneal"
    ELSE IF /\ st = VALID
            /\ \/ b.train_loss = NoVal
               \/ /\ b.enable_metrics
                  /\ \/ ~b.seq_metrics.def
                     \/ b.mode = HOMOGRAPH /\ ~b.per_metrics_homograph.def
                     \/ b.mode = HOMOGRAPH /\ ~b.seq_metrics_homograph.def
    THEN "stats"
    ELSE IF /\ b.enable_metrics
            /\ st = TEST \/ (st = VALID /\ hparams.enable_interim_reports)
            /\ ~b.seq_metrics.def
    THEN "wer_file"
    ELSE IF /\ b.enable_metrics
            /\ st = TEST \/ (st = VALID /\ hparams.enable_interim_reports)
            /\ b.mode = HOMOGRAPH
            /\ ~b.classification_metrics_homograph.def
    THEN "homograph_file"
    ELSE "none"

\* G2PBrain.on_stage_end(stage, stage_loss, epoch), followed by the step of the
\* loop that called it: VALID follows TRAIN inside an epoch, the epoch loop
\* follows VALID, and evaluate returns to __main__.
OnStageEnd ==
    /\ pc = "batches" /\ batch_idx = NumBatches
    /\ \E io \in inputs.io, rate \in scheduler_rates(optimizer.lr, sched) :
       LET b == brain
           st == stage
           stage_loss == loss_sum
           raises == on_stage_end_raises(b, st)
           at == on_stage_end_raise_at(b, st)
           per == IF st # TRAIN /\ b.enable_metrics
                  THEN SummarizeErrorRate(b.per_metrics) ELSE NoVal
           scheduler == on_stage_end_scheduler(b, st)
           do_anneal == scheduler # "none"
           arg == annealing_argument(b)
           value == IF arg = "per" THEN per
                    ELSE IF arg = "train_loss" THEN b.train_loss ELSE epoch
           a == anneal(scheduler, value, rate, sched)
           old_lr == IF do_anneal THEN a.old_lr ELSE optimizer.lr
           new_lr == IF do_anneal THEN a.new_lr ELSE optimizer.lr
           with_metrics == st = VALID /\ b.enable_metrics
           with_homograph == with_metrics /\ b.mode = HOMOGRAPH
           per_homograph == IF with_homograph
                            THEN SummarizeErrorRate(b.per_metrics_homograph)
                            ELSE NoVal
           stats ==
               IF st = VALID
               THEN [epoch |-> epoch, lr |-> stats_lr(old_lr, new_lr), train_loss |-> b.train_loss,
                     loss |-> stage_loss,
                     seq_loss |-> IF with_metrics
                                  THEN SummarizeAverage(b.seq_metrics) ELSE NoVal,
                     PER |-> IF with_metrics THEN per ELSE NoVal,
                     seq_loss_homograph |->
                         IF with_homograph
                         THEN SummarizeAverage(b.seq_metrics_homograph) ELSE NoVal,
                     PER_homograph |-> per_homograph]
               ELSE IF st = TEST
               THEN [NoStats EXCEPT !.epoch = epoch_counter[b.train_step_name],
                                    !.loss = stage_loss,
                                    !.PER = per]
               ELSE NoStats
           meta == IF st = VALID THEN ckpt_meta(b, per) ELSE NoMeta
           key == IF st = VALID THEN min_keys(b) ELSE "none"
           predicate == IF st = VALID THEN ckpt_predicate(b) ELSE "none"
           save == st = VALID /\ should_checkpoint(b, epoch)
           new_ckpt == [id |-> n_saved + 1, of_step |-> b.train_step_name,
                        epoch |-> epoch, meta |-> meta,
                        params |-> optimizer.params]
           interim == IF st = VALID /\ hparams.enable_interim_reports
                         /\ b.enable_metrics
                      THEN write_reports(b, epoch, FALSE) ELSE {}
           final == IF st = TEST /\ b.enable_metrics
                    THEN write_reports(b, epoch, TRUE) ELSE {}
           i == b.train_step_name
           saved_ckpts == save_and_keep_only(checkpoints, new_ckpt, key, predicate)
           saved_min == [k \in {"PER", "PER_homograph"} |->
                           IF meta[k] = NoVal THEN min_saved[k]
                           ELSE IF min_saved[k] = NoVal THEN meta[k]
                           ELSE Min(min_saved[k], meta[k])]
           save_done == save /\ io # "save_fails"
           opened == IF at = "wer_file"
                     THEN {get_report_path(b, epoch, "wer_file", st = TEST)}
                     ELSE interim \cup final
       IN  IF raises /\ at \in {"summarize", "anneal"}
           THEN /\ pc' = "failed"
                /\ err' = "AttributeError"
                /\ UNCHANGED <<stage, call, brain, optimizer, sched, checkpoints,
                               n_saved, reports, last, last_end, counts,
                               min_saved>>
           ELSE IF raises /\ at = "stats"
           THEN /\ pc' = "failed"
                /\ err' = "AttributeError"
                /\ optimizer' = update_learning_rate(optimizer, new_lr)
                /\ sched' = IF do_anneal THEN a.sched ELSE sched
                /\ counts' = [counts EXCEPT
                        ![i].anneals = IF do_anneal THEN @ + 1 ELSE @]
                /\ UNCHANGED <<stage, call, brain, checkpoints, n_saved,
                               reports, last, last_end, min_saved>>
           ELSE IF io_fails(io, save, interim \cup final)
           THEN /\ pc' = uncaught("OSError")
                /\ err' = "OSError"
                /\ optimizer' = update_learning_rate(optimizer, new_lr)
                /\ sched' = IF do_anneal THEN a.sched ELSE sched
                /\ checkpoints' = IF save_done THEN saved_ckpts ELSE checkpoints
                /\ n_saved' = IF save_done THEN n_saved + 1 ELSE n_saved
                /\ min_saved' = IF save_done THEN saved_min ELSE min_saved
                /\ counts' = [counts EXCEPT
                        ![i].saves = IF save_done THEN @ + 1 ELSE @,
                        ![i].anneals = IF do_anneal THEN @ + 1 ELSE @]
                /\ UNCHANGED <<stage, call, brain, reports, last, last_end>>
           ELSE IF raises
           THEN /\ pc' = "failed"
                /\ err' = "AttributeError"
                /\ optimizer' = update_learning_rate(optimizer, new_lr)
                /\ sched' = IF do_anneal THEN a.sched ELSE sched
                /\ checkpoints' = IF save THEN saved_ckpts ELSE checkpoints
                /\ n_saved' = IF save THEN n_saved + 1 ELSE n_saved
                /\ min_saved' = IF save THEN saved_min ELSE min_saved
                /\ reports' = reports \cup opened
                /\ counts' = [counts EXCEPT
                        ![i].saves = IF save THEN @ + 1 ELSE @,
                        ![i].anneals = IF do_anneal THEN @ + 1 ELSE @,
                        ![i].reports = @ + Cardinality(opened)]
                /\ UNCHANGED <<stage, call, brain, last, last_end>>
           ELSE /\ err' = err
                /\ brain' = [b EXCEPT !.train_loss = train_loss_after(b, st, stage_loss)]
                /\ optimizer' = update_learning_rate(optimizer, new_lr)
                /\ sched' = IF do_anneal THEN a.sched ELSE sched
                /\ checkpoints' = IF save THEN saved_ckpts ELSE checkpoints
                /\ n_saved' = IF save THEN n_saved + 1 ELSE n_saved
                /\ min_saved' = IF save THEN saved_min ELSE min_saved
                /\ reports' = reports \cup interim \cup final
                /\ last' = NoLast
                /\ last_end' =
                       [stage |-> st, of_step |-> i, epoch |-> epoch, call |-> call,
                        saved |-> save, meta |-> meta, min_key |-> key,
                        predicate |-> predicate, stats |-> stats,
                        annealed_with |-> IF do_anneal THEN arg ELSE "none",
                        annealed_value |-> IF do_anneal THEN value ELSE NoVal,
                        lr_before |-> optimizer.lr, lr_after |-> new_lr,
                        params_before |-> optimizer.params,
                        params_after |-> optimizer.params,
                        interim |-> interim, final |-> final,
                        samples |-> (st = VALID /\ hparams.use_tensorboard),
                        stage_loss |-> stage_loss, scheduler |-> scheduler,
                        returned |-> IF do_anneal THEN a.new_lr ELSE NoVal,
                        returned_old |-> IF do_anneal THEN a.old_lr ELSE NoVal]
                /\ counts' = [counts EXCEPT
                        ![i].stage_ends = @ + 1,
                        ![i].saves = IF save THEN @ + 1 ELSE @,
                        ![i].test_ends = IF st = TEST THEN @ + 1 ELSE @,
                        ![i].anneals = IF do_anneal THEN @ + 1 ELSE @,
                        ![i].reports = @ + Cardinality(interim \cup final)]
                /\ stage' = IF call = "fit" /\ st = TRAIN THEN VALID ELSE st
                /\ pc' = IF call = "fit"
                         THEN (IF st = TRAIN THEN "stage_start" ELSE "fit")
                         ELSE after_evaluate(call)
                /\ call' = IF call = "fit" THEN call ELSE "none"
    /\ UNCHANGED <<config, train_data, epoch_counter, step, epoch, batch_idx, loss_sum,
                   separators, loaded, exported, started>>

\* "if hparams.get('revalidate'):"
should_revalidate_always == TRUE

should_revalidate == hparams.revalidate

\* Brain.evaluate(dataset, min_key="PER"): the best checkpoint under min_key
\* is recovered (its weights loaded) and a TEST stage begins; the stage
\* handlers get epoch None.
evaluate_loaded(key) == recover_if_possible(checkpoints, key)

evaluate_optimizer(key) ==
    IF evaluate_loaded(key) = 0 THEN optimizer
    ELSE [optimizer EXCEPT
            !.params = CkptById(checkpoints, evaluate_loaded(key)).params]

\* "if hparams.get('revalidate'): g2p_brain.evaluate(valid_data, min_key='PER')"
Revalidate ==
    /\ pc = "after_fit"
    /\ LET go == should_revalidate
       IN  /\ pc' = IF go THEN "stage_start" ELSE "after_reval"
           /\ call' = IF go THEN "revalidate" ELSE call
           /\ stage' = IF go THEN TEST ELSE stage
           /\ epoch' = IF go THEN NoEpoch ELSE epoch
           /\ loaded' = IF go THEN evaluate_loaded("PER") ELSE loaded
           /\ optimizer' = IF go THEN evaluate_optimizer("PER") ELSE optimizer
           /\ counts' = IF go THEN [counts EXCEPT ![step].revalidations = @ + 1]
                        ELSE counts
    /\ UNCHANGED <<config, train_data, epoch_counter, err, step, batch_idx, loss_sum, brain,
                   sched, separators, checkpoints, n_saved, reports, exported,
                   started, last, last_end, min_saved>>

\* "if g2p_brain.start_epoch is not None or hparams.get('retest'):
\*      g2p_brain.evaluate(test_data, min_key='PER')"
should_test_after_revalidation(b) ==
    b.start_epoch # NoEpoch \/ hparams.retest \/ hparams.revalidate

should_test(b) == b.start_epoch # NoEpoch \/ hparams.retest

Test ==
    /\ pc = "after_reval"
    /\ LET go == should_test(brain)
       IN  /\ pc' = IF go THEN "stage_start" ELSE "after_test"
           /\ call' = IF go THEN "test" ELSE call
           /\ stage' = IF go THEN TEST ELSE stage
           /\ epoch' = IF go THEN NoEpoch ELSE epoch
           /\ loaded' = IF go THEN evaluate_loaded("PER") ELSE loaded
           /\ optimizer' = IF go THEN evaluate_optimizer("PER") ELSE optimizer
           /\ counts' = IF go THEN [counts EXCEPT ![step].tests = @ + 1]
                        ELSE counts
    /\ UNCHANGED <<config, train_data, epoch_counter, err, step, batch_idx, loss_sum, brain,
                   sched, separators, checkpoints, n_saved, reports, exported,
                   started, last, last_end, min_saved>>

\* the min_key __main__ hands to save_for_pretrained: it reads the top-level
\* "mode" hyperparameter
export_min_key == IF hparams.mode = HOMOGRAPH THEN "PER_homograph" ELSE "PER"

\* "if hparams.get('save_for_pretrained'): save_for_pretrained(hparams, min_key)"
\* and the end of the loop body
SaveForPretrained ==
    /\ pc = "after_test"
    /\ exported' = IF hparams.save_for_pretrained
                   THEN Append(exported, [of_step |-> step,
                                          min_key |-> export_min_key])
                   ELSE exported
    /\ counts' = IF hparams.save_for_pretrained
                 THEN [counts EXCEPT ![step].exports = @ + 1] ELSE counts
    /\ pc' = "loop"
    /\ UNCHANGED <<config, train_data, epoch_counter, err, step, call, stage, epoch,
                   batch_idx, loss_sum, brain, optimizer, sched, separators,
                   checkpoints, n_saved, loaded, reports, last, last_end,
                   started, min_saved>>

Next ==
    \/ TrainStepLoop
    \/ EpochLoop
    \/ OnStageStart
    \/ FitBatch
    \/ EvaluateBatch
    \/ OnStageEnd
    \/ Revalidate
    \/ Test
    \/ SaveForPretrained

\* ------------------------------------------------------------ initial states
\* The state when __main__ reaches the train_steps loop of a fresh run: the
\* hyperparameters are loaded, every epoch counter is at 0, no checkpoint and
\* no report exists.
InitWith(H, S, I) ==
    /\ hparams \in H
    /\ train_steps \in S
    /\ inputs = I
    /\ epoch_counter = [i \in 1..NumSteps |-> 0]
    /\ pc = "loop"
    /\ err = "none"
    /\ step = 0
    /\ call = "none"
    /\ stage = "NONE"
    /\ epoch = NoEpoch
    /\ batch_idx = 0
    /\ loss_sum = 0
    /\ brain = NoBrain
    /\ optimizer = [params |-> 0, lr |-> InitialLR, grads |-> "zero"]
    /\ sched = [value |-> InitialLR, anchor |-> NoVal]
    /\ separators = NoSeparators
    /\ checkpoints = {}
    /\ n_saved = 0
    /\ loaded = 0
    /\ reports = {}
    /\ exported = <<>>
    /\ started = <<>>
    /\ counts = [i \in 1..NumSteps |-> NoCounts]
    /\ last = NoLast
    /\ last_end = NoEnd
    /\ min_saved = NoMeta
    /\ train_data = NoData

\* the lists of NumSteps steps with budgets from L, modes from M and CTC
\* cutoffs from C
StepLists(L, M, C) ==
    {[i \in 1..NumSteps |-> TrainStep(i, l[i], m[i], c[i])] :
        l \in [1..NumSteps -> L], m \in [1..NumSteps -> M],
        c \in [1..NumSteps -> C]}

\* the same lists where each step also carries an lr_annealing entry from A
\* ("absent" when the step has none)
StepListsAnnealed(L, M, C, A) ==
    {[i \in 1..NumSteps |-> [sl[i] EXCEPT !.lr_annealing = a[i]]] :
        sl \in StepLists(L, M, C), a \in [1..NumSteps -> A]}

\* the same lists where each step also carries a "sample" count from N and a
\* "sample_random" flag from R
StepListsSampled(L, M, C, N, R) ==
    {[i \in 1..NumSteps |-> [sl[i] EXCEPT !.sample = n[i],
                                          !.sample_random = r[i]]] :
        sl \in StepLists(L, M, C), n \in [1..NumSteps -> N],
        r \in [1..NumSteps -> BOOLEAN]}

\* one model output per batch: a run is then determined by its configuration
FixedInputs ==
    [seq |-> {1}, ctc |-> {3}, hom |-> {2}, grad_ok |-> {TRUE},
     edits |-> {0}, edits_h |-> {1},
     io |-> {"ok"}, data |-> {FileOrder(0)}]

\* The curriculum driver: every combination of the revalidate / retest /
\* save_for_pretrained switches and of a supported and an unsupported sorting,
\* over steps of every mode with an empty, a one-epoch and a full budget.
DriverHparams ==
    {[DefaultHparams EXCEPT !.revalidate = r, !.retest = t,
                            !.save_for_pretrained = e, !.sorting = so] :
        r \in BOOLEAN, t \in BOOLEAN, e \in BOOLEAN,
        so \in {"ascending", "alphabetical"}}

Init == InitWith(DriverHparams, StepLists({0, 1, MaxEpochs}, TrainMode, {1}),
                 FixedInputs)

Spec == Init /\ [][Next]_vars

\* Loss composition: models with and without a CTC head, two CTC weights,
\* steps of two epochs in both modes with a CTC cutoff before the first epoch,
\* inside the budget and at its end; the sequence cost of a batch varies.
LossHparams ==
    {[DefaultHparams EXCEPT !.has_ctc = h, !.ctc_weight = w,
                            !.revalidate = TRUE] :
        h \in BOOLEAN, w \in {1, 3}}

LossInputs ==
    [seq |-> {1, 2}, ctc |-> {3}, hom |-> {2}, grad_ok |-> {TRUE},
     edits |-> {0}, edits_h |-> {0},
     io |-> {"ok"}, data |-> {FileOrder(0)}]

InitLoss == InitWith(LossHparams, StepLists({2}, TrainMode, {0, 1, 2}),
                     LossInputs)

SpecLoss == InitLoss /\ [][Next]_vars

\* Optimizer updates: the gradient check of a batch passes or fails.
TrainHparams ==
    {[DefaultHparams EXCEPT !.revalidate = r, !.ckpt_enable = c] :
        r \in BOOLEAN, c \in BOOLEAN}

TrainInputs ==
    [seq |-> {1}, ctc |-> {3}, hom |-> {2}, grad_ok |-> BOOLEAN,
     edits |-> {0}, edits_h |-> {0},
     io |-> {"ok"}, data |-> {FileOrder(0)}]

InitTrain == InitWith(TrainHparams, StepLists({1, 2}, TrainMode, {1}),
                      TrainInputs)

SpecTrain == InitTrain /\ [][Next]_vars

\* Checkpointing: checkpoints on and off, every epoch and every second epoch,
\* metrics on and off, steps of both modes; the edit counts of a batch vary,
\* so the error rates of the epochs differ.
CkptHparams ==
    {[DefaultHparams EXCEPT !.ckpt_enable = c, !.ckpt_frequency = f,
                            !.enable_metrics = m] :
        c \in BOOLEAN, f \in {1, 2}, m \in BOOLEAN}

CkptInputs ==
    [seq |-> {1}, ctc |-> {3}, hom |-> {2}, grad_ok |-> {TRUE},
     edits |-> {0, 1}, edits_h |-> {1},
     io |-> {"ok"}, data |-> {FileOrder(0)}]

InitCkpt == InitWith(CkptHparams, StepLists({MaxEpochs}, TrainMode, {1}),
                     CkptInputs)

SpecCkpt == InitCkpt /\ [][Next]_vars

\* A run that resumes an interrupted experiment: the epoch counter of a step
\* is where the earlier run left it (here: untouched, or at the step's limit),
\* and the checkpoint the earlier run kept for its last finished step is on
\* disk.
PriorCheckpoints(S, e) ==
    LET done == {i \in 1..NumSteps : e[i] > 0}
        i == CHOOSE j \in done : \A k \in done : k <= j
    IN  IF done = {} THEN {}
        ELSE {[id |-> 1, of_step |-> i, epoch |-> e[i],
               meta |-> IF S[i].mode = HOMOGRAPH
                        THEN [NoMeta EXCEPT !.PER_homograph = 0]
                        ELSE [NoMeta EXCEPT !.PER = 0],
               params |-> 0]}

InitResumed(H, S, I) ==
    /\ hparams \in H
    /\ train_steps \in S
    /\ inputs = I
    /\ epoch_counter \in [1..NumSteps -> 0..MaxEpochs]
    /\ \A i \in 1..NumSteps : epoch_counter[i] \in {0, train_steps[i].limit}
    /\ pc = "loop"
    /\ err = "none"
    /\ step = 0
    /\ call = "none"
    /\ stage = "NONE"
    /\ epoch = NoEpoch
    /\ batch_idx = 0
    /\ loss_sum = 0
    /\ brain = NoBrain
    /\ optimizer = [params |-> 0, lr |-> InitialLR, grads |-> "zero"]
    /\ sched = [value |-> InitialLR, anchor |-> NoVal]
    /\ separators = NoSeparators
    /\ checkpoints = PriorCheckpoints(train_steps, epoch_counter)
    /\ n_saved = Cardinality(checkpoints)
    /\ loaded = 0
    /\ reports = {}
    /\ exported = <<>>
    /\ started = <<>>
    /\ counts = [i \in 1..NumSteps |-> NoCounts]
    /\ last = NoLast
    /\ last_end = NoEnd
    /\ min_saved = NoMeta
    /\ train_data = NoData

\* Resumed runs: every combination of the revalidate and retest switches,
\* metrics on and off, over steps of both modes with a budget of one or two
\* epochs that a prior run has or has not used up.
ResumeHparams ==
    {[DefaultHparams EXCEPT !.revalidate = r, !.retest = t,
                            !.enable_metrics = m] :
        r \in BOOLEAN, t \in BOOLEAN, m \in BOOLEAN}

InitResume == InitResumed(ResumeHparams, StepLists({1, 2}, TrainMode, {1}),
                          FixedInputs)

SpecResume == InitResume /\ [][Next]_vars

\* Reports and word separators: interim reports on and off, metrics on and
\* off, tokenized and raw phoneme targets, with a revalidation pass, over
\* steps of both modes.
ReportHparams ==
    {[DefaultHparams EXCEPT !.enable_interim_reports = i, !.enable_metrics = m,
                            !.phn_tokenize = t, !.revalidate = TRUE] :
        i \in BOOLEAN, m \in BOOLEAN, t \in BOOLEAN}

InitReport == InitWith(ReportHparams, StepLists({2}, TrainMode, {1}),
                       FixedInputs)

SpecReport == InitReport /\ [][Next]_vars

\* Learning-rate annealing: every kind of scheduler (and none) in both
\* annealing modes, with and without metrics; the sequence cost and the edit
\* count of a batch vary, so the values handed to a plateau scheduler differ
\* between epochs.  The first step has two epochs and every later step one.
AnnealHparams ==
    {[DefaultHparams EXCEPT !.lr_annealing = a, !.lr_annealing_mode = m,
                            !.enable_metrics = e, !.revalidate = TRUE] :
        a \in Annealers, m \in {"epoch", "step"}, e \in BOOLEAN}

AnnealInputs ==
    [seq |-> {1, 2}, ctc |-> {3}, hom |-> {2}, grad_ok |-> {TRUE},
     edits |-> {0, 1}, edits_h |-> {0},
     io |-> {"ok"}, data |-> {FileOrder(0)}]

AnnealSteps ==
    {sl \in StepLists({1, 2}, {NORMAL}, {1}) :
        \A i \in 1..NumSteps : sl[i].limit = IF i = 1 THEN 2 ELSE 1}

InitAnneal == InitWith(AnnealHparams, AnnealSteps, AnnealInputs)

SpecAnneal == InitAnneal /\ [][Next]_vars

\* Step-local annealing: a global scheduler (or none) in both annealing modes,
\* over one-epoch steps that carry their own lr_annealing entry or none.
OverrideHparams ==
    {[DefaultHparams EXCEPT !.lr_annealing = a, !.lr_annealing_mode = m,
                            !.revalidate = TRUE, !.retest = TRUE,
                            !.save_for_pretrained = TRUE] :
        a \in {"none", "newbob", "noam"}, m \in {"epoch", "step"}}

InitOverride ==
    InitWith(OverrideHparams,
             StepListsAnnealed({1}, {NORMAL}, {1}, {"absent", "plateau"}),
             FixedInputs)

SpecOverride == InitOverride /\ [][Next]_vars

\* Persistence failures: every stage end handler may find that its checkpoint
\* save or its first report write fails, with checkpointing and interim reports
\* on and off, over two-epoch steps of both modes.
IOHparams ==
    {[DefaultHparams EXCEPT !.ckpt_enable = c, !.enable_interim_reports = r,
                            !.revalidate = TRUE, !.save_for_pretrained = TRUE] :
        c \in BOOLEAN, r \in BOOLEAN}

IOInputs == [FixedInputs EXCEPT !.io = {"ok", "save_fails", "report_fails"}]

InitIO == InitWith(IOHparams, StepLists({2}, TrainMode, {1}), IOInputs)

SpecIO == InitIO /\ [][Next]_vars

\* Stage end handlers in every configuration: each kind of scheduler (and
\* none), metrics, TensorBoard samples and interim reports on and off, over
\* one-epoch steps of both modes that a prior run has or has not completed,
\* followed by a revalidation and a test.
EndHparams ==
    {[DefaultHparams EXCEPT !.lr_annealing = a, !.enable_metrics = m,
                            !.use_tensorboard = t,
                            !.enable_interim_reports = i,
                            !.revalidate = TRUE, !.retest = TRUE,
                            !.save_for_pretrained = TRUE] :
        a \in Annealers, m \in BOOLEAN, t \in BOOLEAN, i \in BOOLEAN}

InitEnd == InitResumed(EndHparams, StepLists({1}, TrainMode, {1}), FixedInputs)

SpecEnd == InitEnd /\ [][Next]_vars

\* Subsampling: every supported sorting without a filter on the items'
\* origin and ascending order with the filter "a,c", steps with no sample count, a zero
\* count, a count below the dataset size and one above it, with and without
\* random selection, over a dataset file whose order is neither sorted order.
SampleHparams ==
    {[DefaultHparams EXCEPT !.sorting = so] : so \in SupportedSorting}
    \cup {[DefaultHparams EXCEPT !.sorting = "ascending", !.origins = <<"a", ",", "c">>]}

SampleInputs == [FixedInputs EXCEPT !.data = {FileOrder(1)}]

InitSample ==
    InitWith(SampleHparams,
             StepListsSampled({1}, {NORMAL}, {1},
                              {NoSample, 0, 2, MaxItems + 1}, BOOLEAN),
             SampleInputs)

SpecSample == InitSample /\ [][Next]_vars

\* =================================================================== claims

\* the steps of the configuration whose epoch budget is below 1
Skipped(i) == train_steps[i].limit < 1

\* C1: a training step whose epoch_counter.limit is below 1 is skipped
\* entirely: no data pipeline is built and no G2PBrain created for it, it sees
\* no forward pass, stage, checkpoint, report or export, the loop is at its
\* head without an exception while it is at this step, and its next move is to
\* the following configured step (or to the end of the loop after the last).
C1_SkippedStepDoesNothing ==
    /\ [](\A i \in 1..NumSteps :
            Skipped(i) =>
                /\ counts[i] = NoCounts
                /\ step = i => (pc \in {"loop", "done"} /\ err = "none"))
    /\ [][\A i \in 1..NumSteps :
            (Skipped(i) /\ step = i /\ pc = "loop") =>
                \/ i < NumSteps /\ step' = i + 1
                \/ i = NumSteps /\ pc' = "done"]_vars

\* a skipped step lies behind a step that has run its stages
C1_Witness ==
    \E i \in 1..NumSteps :
        /\ Skipped(i)
        /\ i < step
        /\ counts[step].forward > 0
        /\ counts[i] = NoCounts

\* C2: the steps run in configured order, one at a time and at most once
\* each: the loop has visited exactly the steps 1..step in that order, no step
\* after the current one has any activity, the brain at work is the current
\* step's, and no action changes the activity of a step other than the one
\* the loop is at (so all stages and the export of a step are over when the
\* next step begins).
C2_StepsInOrderOneAtATime ==
    /\ [](/\ started = [k \in 1..step |-> k]
          /\ \A i \in 1..NumSteps : i > step => counts[i] = NoCounts
          /\ (brain.alive /\ pc \notin {"loop", "done", "failed"})
                => brain.train_step_name = step)
    /\ [][\A i \in 1..NumSteps : i # step' => counts'[i] = counts[i]]_vars

\* the second step is in a stage after the first ran its stages and export
C2_Witness ==
    /\ step = 2
    /\ pc = "batches"
    /\ counts[1].stage_ends > 0
    /\ counts[1].exports > 0
    /\ counts[2].forward > 0

\* activity of step i when its fit loop is in epoch e: stages begun, stages
\* ended and batches processed by the epochs before e
BeforeEpoch(e) ==
    [starts |-> 2 * (e - 1), ends |-> 2 * (e - 1),
     batches |-> 2 * NumBatches * (e - 1)]

\* C3: inside fit, epoch e runs TRAIN over all its batches, then the TRAIN
\* stage end (which records train_loss), then VALID over all its batches,
\* then the VALID stage end, and only then may epoch e+1 begin; batches are
\* processed one after another.  In terms of the step's counters: while a
\* stage of epoch e is open, exactly the stages of the earlier epochs (and the
\* TRAIN stage of e, when VALID is open) have begun and ended, and exactly
\* their batches plus the batch_idx batches of the open stage were processed.
C3_StagesSequential ==
    /\ (call = "fit" /\ pc \in {"stage_start", "batches"}) =>
        LET c == counts[step]
            e == epoch
            done_train == IF stage = VALID THEN 1 ELSE 0
            open == IF pc = "batches" THEN 1 ELSE 0
        IN  /\ e = epoch_counter[step]
            /\ stage \in {TRAIN, VALID}
            /\ c.stage_starts = BeforeEpoch(e).starts + done_train + open
            /\ c.stage_ends = BeforeEpoch(e).ends + done_train
            /\ c.forward = BeforeEpoch(e).batches + done_train * NumBatches
                           + open * batch_idx
            /\ batch_idx <= NumBatches
            /\ (stage = VALID /\ pc = "stage_start") =>
                    /\ last_end.stage = TRAIN
                    /\ last_end.epoch = e
                    /\ brain.train_loss = last_end.stage_loss
    /\ (pc = "fit" /\ epoch_counter[step] > 0) =>
            /\ last_end.stage = VALID
            /\ last_end.epoch = epoch_counter[step]
            /\ last_end.of_step = step
            /\ counts[step].forward = BeforeEpoch(epoch_counter[step] + 1).batches

\* the VALID stage of a second epoch is processing its second batch
C3_Witness ==
    /\ call = "fit"
    /\ stage = VALID
    /\ epoch = 2
    /\ pc = "batches"
    /\ batch_idx = NumBatches
    /\ brain.train_loss # NoVal

\* the configured step a history record belongs to
StepOf(r) == train_steps[r.of_step]

\* C4: for every batch the CTC term is part of the composed loss exactly when
\* the model has a ctc_lin head, the stage is TRAIN and the step's current
\* epoch is at most the step's ctc_epochs; so never in VALID / TEST and never
\* in a TRAIN epoch after the cutoff.
C4_CtcIffHeadTrainWithinCutoff ==
    last.stage # "NONE" =>
        /\ last.ctc <=> (/\ hparams.has_ctc
                         /\ last.stage = TRAIN
                         /\ last.epoch <= StepOf(last).ctc_epochs)
        /\ last.epoch = epoch_counter[last.of_step]
        /\ last.stage = TRAIN => last.epoch = epoch

\* a TRAIN batch of the epoch after the cutoff, with the head configured, and
\* the term left out
C4_Witness ==
    /\ last.stage = TRAIN
    /\ hparams.has_ctc
    /\ StepOf(last).ctc_epochs = 1
    /\ last.epoch = 2
    /\ ~last.ctc

\* C5 as claimed: whenever the CTC term is left out, the composed loss is the
\* sequence loss, in every stage and mode.
C5_LossIsSeqLossWhenCtcOff ==
    (last.stage # "NONE" /\ ~last.ctc) => last.loss = WDen * last.x.seq

\* C5, amended: whenever the CTC term is left out, the composed loss does not
\* depend on ctc_weight: it is the sequence loss in NORMAL mode and the
\* sequence loss plus the weighted homograph loss in HOMOGRAPH mode.
C5_LossWithoutCtc ==
    (last.stage # "NONE" /\ ~last.ctc) =>
        last.loss = WDen * last.x.seq
                    + (IF StepOf(last).mode = HOMOGRAPH
                       THEN hparams.homograph_loss_weight * last.x.hom ELSE 0)

\* a TRAIN batch after the cutoff of a model with a CTC head, in NORMAL mode
C5_Witness ==
    /\ last.stage = TRAIN
    /\ hparams.has_ctc
    /\ ~last.ctc
    /\ StepOf(last).mode = NORMAL
    /\ last.loss = WDen * last.x.seq

\* C6: the weighted homograph loss is added to the loss of a batch exactly
\* when the step's mode is HOMOGRAPH, in TRAIN, VALID and TEST alike and
\* whether or not the CTC term is in: the loss is the (CTC-weighted or plain)
\* sequence loss plus, in HOMOGRAPH mode only, homograph_loss_weight times the
\* homograph cost.
C6_HomographTermIffHomographMode ==
    last.stage # "NONE" =>
        LET base == IF last.ctc
                    THEN (WDen - hparams.ctc_weight) * last.x.seq
                         + hparams.ctc_weight * last.x.ctc
                    ELSE WDen * last.x.seq
        IN  /\ last.homograph <=> StepOf(last).mode = HOMOGRAPH
            /\ last.loss = base
                           + (IF StepOf(last).mode = HOMOGRAPH
                              THEN hparams.homograph_loss_weight * last.x.hom
                              ELSE 0)

\* a TEST batch of a HOMOGRAPH step carries the homograph term
C6_Witness ==
    /\ last.stage = TEST
    /\ StepOf(last).mode = HOMOGRAPH
    /\ last.homograph
    /\ last.loss = WDen * last.x.seq + hparams.homograph_loss_weight * last.x.hom
    /\ hparams.homograph_loss_weight * last.x.hom > 0

\* C7: a TRAIN batch whose gradient check fails leaves the parameters as they
\* were, and one whose check passes makes exactly one update; either way the
\* gradients are cleared, no exception is raised and the loop moves on to the
\* next batch (the batch is not repeated).
C7_FailedCheckSkipsOnlyTheUpdate ==
    [][(pc = "batches" /\ stage = TRAIN /\ batch_idx < NumBatches) =>
            /\ last'.stage = TRAIN
            /\ optimizer'.params =
                    optimizer.params + (IF last'.grad_ok THEN 1 ELSE 0)
            /\ optimizer'.grads = "zero"
            /\ batch_idx' = batch_idx + 1
            /\ counts'[step].forward = counts[step].forward + 1
            /\ pc' = "batches"
            /\ err' = "none"]_vars

\* the first batch of a stage failed its check and the second one, passing
\* its own, made its update
C7_Witness ==
    /\ stage = TRAIN
    /\ step = 1
    /\ epoch = 1
    /\ batch_idx = 2
    /\ counts[1].skipped = 1
    /\ last.grad_ok
    /\ optimizer.params = 1

\* C8: on_stage_end saves a checkpoint exactly at the VALID stage ends whose
\* epoch is a multiple of ckpt_frequency, when ckpt_enable is set; none at a
\* TRAIN or TEST stage end.  So after e epochs of a step e \div ckpt_frequency
\* checkpoints were saved by it, and every checkpoint ever saved was saved by
\* such a stage end.
C8_CheckpointEveryNthValidEnd ==
    /\ last_end.stage # "NONE" =>
            (last_end.saved <=> (/\ last_end.stage = VALID
                                 /\ hparams.ckpt_enable
                                 /\ last_end.epoch % hparams.ckpt_frequency = 0))
    /\ pc = "fit" =>
            counts[step].saves =
                IF hparams.ckpt_enable
                THEN epoch_counter[step] \div hparams.ckpt_frequency ELSE 0
    /\ n_saved = SumSeq([i \in 1..NumSteps |-> counts[i].saves])

\* with ckpt_frequency = 2 the VALID stage end of epoch 4 saved the second
\* checkpoint of the step (epochs 1 and 3 saved none)
C8_Witness ==
    /\ hparams.ckpt_frequency = 2
    /\ last_end.stage = VALID
    /\ last_end.epoch = 4
    /\ last_end.saved
    /\ step = 1
    /\ counts[1].saves = 2

\* C9: after a checkpoint save of a NORMAL-mode step exactly one checkpoint
\* remains, and when checkpoints carry PER (metrics enabled) its PER is the
\* smallest PER any checkpoint was saved with so far.
C9_OnlyBestCheckpointRemains ==
    (last_end.saved /\ StepOf(last_end).mode = NORMAL) =>
        /\ Cardinality(checkpoints) = 1
        /\ hparams.enable_metrics =>
                \A c \in checkpoints :
                    /\ c.meta.PER # NoVal
                    /\ c.meta.PER = min_saved.PER
                    /\ c.meta.PER <= last_end.meta.PER

\* the third save of a step had a worse PER than the second: the checkpoint
\* of epoch 2 is the one that remains
C9_Witness ==
    /\ hparams.ckpt_frequency = 1
    /\ step = 1
    /\ last_end.saved
    /\ StepOf(last_end).mode = NORMAL
    /\ last_end.epoch = 3
    /\ \E c \in checkpoints :
        /\ c.epoch = 2
        /\ c.of_step = 1
        /\ c.meta.PER < last_end.meta.PER
    /\ Cardinality(checkpoints) = 1

\* C10 as claimed: the metadata of a checkpoint saved with metrics enabled
\* holds, under the mode's key, the error rate of that kind of the VALID stage
\* just ended: PER in NORMAL mode, and in HOMOGRAPH mode PER_homograph with
\* the value logged as PER_homograph; that key is the minimization key.
C10_MetaCarriesModeErrorRate ==
    (last_end.saved /\ hparams.enable_metrics) =>
        IF StepOf(last_end).mode = HOMOGRAPH
        THEN /\ last_end.meta.PER_homograph = last_end.stats.PER_homograph
             /\ last_end.min_key = "PER_homograph"
        ELSE /\ last_end.meta.PER = last_end.stats.PER
             /\ last_end.min_key = "PER"

\* the running handler is the end of a VALID stage
AtValidEnd == pc = "batches" /\ batch_idx = NumBatches /\ stage = VALID

\* the running handler is a TRAIN batch
AtTrainBatch == pc = "batches" /\ batch_idx < NumBatches /\ stage = TRAIN

\* C11 as claimed: the learning rate of a step's optimizer changes only in
\* the VALID stage end handler, in every annealing mode (a step's optimizer
\* is created with the initial rate when the loop reaches the step).
C11_LrChangesOnlyAtValidEnd ==
    [][optimizer'.lr # optimizer.lr => (AtValidEnd \/ pc = "loop")]_vars

\* C11, amended: with lr_annealing_mode "epoch" the learning rate changes
\* only in the VALID stage end handler; with lr_annealing_mode "step" and a
\* scheduler configured it changes only in TRAIN batches (fit_batch applies
\* the scheduler after every batch) and the VALID stage end leaves it alone.
\* No VALID / TEST batch, stage start, TRAIN or TEST stage end changes it.
C11_LrChangesByAnnealingMode ==
    [][optimizer'.lr # optimizer.lr =>
            \/ pc = "loop"
            \/ /\ hparams.lr_annealing # "none"
               /\ brain.lr_annealing_mode = "epoch"
               /\ AtValidEnd
            \/ /\ hparams.lr_annealing # "none"
               /\ brain.lr_annealing_mode = "step"
               /\ AtTrainBatch]_vars

\* a TRAIN batch under step-mode annealing lowered the rate, after a VALID
\* stage end of the same step had left it as it was
C11_Witness ==
    /\ last.stage = TRAIN
    /\ hparams.lr_annealing_mode = "step"
    /\ last.lr_after < last.lr_before
    /\ last.epoch = 2
    /\ optimizer.lr = last.lr_after

BodyDone(i) ==
    /\ train_steps[i].limit >= 1
    /\ \/ i < step
       \/ i = step /\ pc \in {"after_test", "loop", "done"}

\* C13: for a step that was not skipped, the TEST evaluation has run exactly
\* when an epoch of the step was started in this run or retest is set.  So a
\* step whose epoch counter was at its limit when the run began is tested
\* exactly when retest is set, whether or not it was revalidated.
C13_TestIffEpochStartedOrRetest ==
    \A i \in 1..NumSteps :
        BodyDone(i) =>
            /\ counts[i].tests = 1 <=> (counts[i].epochs >= 1 \/ hparams.retest)
            /\ i = step =>
                    (brain.start_epoch # NoEpoch <=> counts[i].epochs >= 1)

\* a step that a prior run had finished was revalidated and, retest being
\* off, not tested
C13_Witness ==
    /\ pc = "after_test"
    /\ ~hparams.retest
    /\ hparams.revalidate
    /\ counts[step].epochs = 0
    /\ counts[step].revalidations = 1
    /\ counts[step].tests = 0
    /\ epoch_counter[step] = train_steps[step].limit

\* the stage end e wrote the final reports of its step, to the flat paths:
\* none without metrics, else the error-rate report and, in HOMOGRAPH mode,
\* the homograph report
FinalReportsWritten(e) ==
    /\ \A r \in e.final : ~r.folder.interim /\ r.of_step = e.of_step
    /\ {r.file : r \in e.final} =
            IF ~hparams.enable_metrics THEN {}
            ELSE IF StepOf(e).mode = HOMOGRAPH
                 THEN {"wer_file", "homograph_stats_file"}
                 ELSE {"wer_file"}

\* a TEST stage is running
InTestStage == pc \in {"stage_start", "batches"} /\ stage = TEST

\* C14 as claimed: per step, TEST-stage handling (stage start, logging of the
\* test statistics, writing of the final reports) runs at most once, and only
\* once the step's epoch budget is used up.
C14_TestStageAtMostOnce ==
    /\ \A i \in 1..NumSteps : counts[i].test_ends <= 1
    /\ InTestStage => epoch_counter[step] = train_steps[step].limit

\* C14, amended: per step the evaluation of the test data runs at most once,
\* and a TEST stage runs only once the step's epoch budget is used up (the
\* VALID stage of its last epoch has ended); the TEST-stage handlers run once
\* for it and once more, before it, for a revalidation pass, so at most twice
\* per step, each time logging test statistics and (with metrics) writing the
\* final reports.
C14_TestEvaluationAtMostOnce ==
    /\ \A i \in 1..NumSteps :
        /\ counts[i].tests <= 1
        /\ counts[i].test_ends <= counts[i].tests + counts[i].revalidations
        /\ counts[i].test_ends <= 2
        /\ BodyDone(i) =>
                counts[i].test_ends = counts[i].tests + counts[i].revalidations
    /\ InTestStage =>
        /\ epoch_counter[step] = train_steps[step].limit
        /\ call \in {"revalidate", "test"}
        /\ call = "test" => counts[step].tests = 1
    /\ last_end.stage = TEST =>
        /\ last_end.stats.loss = last_end.stage_loss
        /\ FinalReportsWritten(last_end)
        /\ last_end.interim = {}

\* the test of a step ended after its revalidation: the second TEST stage end
\* of the step
C14_Witness ==
    /\ pc = "after_test"
    /\ last_end.stage = TEST
    /\ last_end.call = "test"
    /\ counts[step].tests = 1
    /\ counts[step].test_ends = 2
    /\ counts[step].epochs = train_steps[step].limit

\* C15 as claimed: the revalidation pass runs once when revalidate is set,
\* never otherwise, and its stage is VALID.
C15_RevalidationIsValidStage ==
    /\ \A i \in 1..NumSteps :
        BodyDone(i) =>
            counts[i].revalidations = IF hparams.revalidate THEN 1 ELSE 0
    /\ (pc \in {"stage_start", "batches"} /\ call = "revalidate") => stage = VALID
    /\ last_end.call = "revalidate" => last_end.stage = VALID

\* C15, amended: when revalidate is set the validation data is evaluated
\* exactly once more after the fit loop and before the test, through the same
\* evaluate call as the test: its stage is TEST with no epoch, so its end logs
\* test statistics and writes the final reports, and it neither anneals nor
\* saves a checkpoint.  Without revalidate there is no such pass.
C15_RevalidationIsTestStage ==
    /\ \A i \in 1..NumSteps :
        /\ counts[i].revalidations <= 1
        /\ BodyDone(i) =>
                counts[i].revalidations = IF hparams.revalidate THEN 1 ELSE 0
    /\ (pc \in {"stage_start", "batches"} /\ call = "revalidate") =>
        /\ stage = TEST
        /\ epoch = NoEpoch
        /\ counts[step].tests = 0
        /\ epoch_counter[step] = train_steps[step].limit
    /\ last_end.call = "revalidate" =>
        /\ last_end.stage = TEST
        /\ ~last_end.saved
        /\ last_end.lr_after = last_end.lr_before
        /\ last_end.annealed_with = "none"
        /\ last_end.stats.train_loss = NoVal
        /\ last_end.interim = {}
        /\ FinalReportsWritten(last_end)

\* the revalidation pass of a step has just ended, after its two epochs and
\* before its test
C15_Witness ==
    /\ pc = "after_reval"
    /\ hparams.revalidate
    /\ last_end.call = "revalidate"
    /\ last_end.stage = TEST
    /\ counts[step].epochs = 2
    /\ counts[step].revalidations = 1
    /\ counts[step].tests = 0

\* the accumulators that exist in a VALID / TEST stage of brain b
StageAccumulators(b) ==
    IF ~b.enable_metrics THEN {}
    ELSE {b.seq_metrics, b.per_metrics}
         \cup (IF b.mode = HOMOGRAPH
               THEN {b.seq_metrics_homograph, b.per_metrics_homograph,
                     b.classification_metrics_homograph}
               ELSE {})

\* C16: while a stage runs, the sequence-loss accumulator holds no entry from
\* before the stage, and in a VALID / TEST stage every accumulator in use
\* (with metrics enabled: sequence loss and error rate, and in HOMOGRAPH mode
\* the three homograph ones) holds exactly one entry per batch processed in
\* this stage invocation; the accumulated sequence (and homograph) losses add
\* up to the stage's own running loss, so what the stage end summarizes comes
\* from this stage's batches only.
C16_AccumulatorsScopedToStage ==
    pc = "batches" =>
        /\ brain.seq_metrics.def
        /\ Len(brain.seq_metrics.items) =
                IF brain.enable_metrics /\ stage # TRAIN THEN batch_idx ELSE 0
        /\ stage # TRAIN =>
            /\ \A acc \in StageAccumulators(brain) :
                    acc.def /\ Len(acc.items) = batch_idx
            /\ brain.enable_metrics =>
                    loss_sum =
                        WDen * SumSeq(brain.seq_metrics.items)
                        + (IF brain.mode = HOMOGRAPH
                           THEN hparams.homograph_loss_weight
                                * SumSeq(brain.seq_metrics_homograph.items)
                           ELSE 0)

\* all batches of the VALID stage of the third epoch of a HOMOGRAPH step are
\* in: every accumulator holds just these
C16_Witness ==
    /\ pc = "batches"
    /\ stage = VALID
    /\ epoch = 3
    /\ batch_idx = NumBatches
    /\ brain.enable_metrics
    /\ brain.mode = HOMOGRAPH
    /\ Len(brain.per_metrics.items) = NumBatches
    /\ Len(brain.per_metrics_homograph.items) = NumBatches
    /\ Len(brain.classification_metrics_homograph.items) = NumBatches

\* the brain's accumulator f, after a batch with value v was appended or not
Appended(f, yes, v) ==
    brain'[f].items = IF yes THEN Append(brain[f].items, v) ELSE brain[f].items

\* C17: a batch (its loss computation) appends its sequence cost and its edit
\* count to the full-sequence accumulators exactly when metrics are enabled
\* and the stage is not TRAIN, and its homograph cost, homograph edit count
\* and classification outcome to the homograph accumulators exactly when in
\* addition the mode is HOMOGRAPH; otherwise every accumulator is unchanged.
C17_AppendIffMetricsAndNotTrain ==
    [][(pc = "batches" /\ batch_idx < NumBatches /\ pc' # "failed") =>
            LET full == brain.enable_metrics /\ stage # TRAIN
                hom == full /\ brain.mode = HOMOGRAPH
                x == last'.x
            IN  /\ Appended("seq_metrics", full, x.seq)
                /\ Appended("per_metrics", full, x.edits)
                /\ Appended("seq_metrics_homograph", hom, x.hom)
                /\ Appended("per_metrics_homograph", hom, x.edits_h)
                /\ Appended("classification_metrics_homograph", hom, x.edits_h)
                /\ ~full => brain' = brain]_vars

\* a TEST batch of a HOMOGRAPH step was appended to all five accumulators
C17_Witness ==
    /\ last.stage = TEST
    /\ brain.enable_metrics
    /\ brain.mode = HOMOGRAPH
    /\ batch_idx = 1
    /\ brain.seq_metrics.items = <<last.x.seq>>
    /\ brain.per_metrics.items = <<last.x.edits>>
    /\ brain.seq_metrics_homograph.items = <<last.x.hom>>
    /\ brain.per_metrics_homograph.items = <<last.x.edits_h>>
    /\ brain.classification_metrics_homograph.items = <<last.x.edits_h>>

\* C18: a TRAIN batch is never decoded; a VALID or TEST batch is decoded (by
\* its one forward pass) exactly when metrics are enabled, a VALID batch by
\* the validation beam searcher and a TEST batch by the main beam searcher.
C18_BeamSearchOnlyForEvaluationWithMetrics ==
    last.stage # "NONE" =>
        last.hyps = IF last.stage = TRAIN \/ ~hparams.enable_metrics THEN "none"
                    ELSE IF last.stage = VALID THEN "beam_searcher_valid"
                    ELSE "beam_searcher"

\* a VALID batch was decoded by the validation beam searcher
C18_Witness ==
    /\ last.stage = VALID
    /\ hparams.enable_metrics
    /\ last.hyps = "beam_searcher_valid"
    /\ counts[step].forward = NumBatches + 1

\* C19: in a HOMOGRAPH-mode step, from the end of the stage start handler on
\* (so at every batch of every stage) the homograph extractor and the
\* homograph loss both carry the word separator of the target space (the
\* token-space index when phonemes are tokenized, the raw-space index
\* otherwise) and the raw-space index as base separator; without
\* tokenization the two are the same value.
C19_SeparatorsSetBeforeBatches ==
    (pc = "batches" /\ brain.mode = HOMOGRAPH) =>
        /\ \A f \in {"homograph_cost", "homograph_extractor"} :
            /\ separators[f].word_separator =
                    IF hparams.phn_tokenize THEN token_space_index
                    ELSE space_index
            /\ separators[f].word_separator_base = space_index
            /\ ~hparams.phn_tokenize =>
                    separators[f].word_separator =
                        separators[f].word_separator_base
        /\ separators.homograph_cost = separators.homograph_extractor

\* before the first batch of the first stage of a HOMOGRAPH step with
\* tokenized phonemes both objects carry both indices
C19_Witness ==
    /\ pc = "batches"
    /\ batch_idx = 0
    /\ stage = TRAIN
    /\ epoch = 1
    /\ brain.mode = HOMOGRAPH
    /\ hparams.phn_tokenize
    /\ separators.homograph_extractor.word_separator = token_space_index
    /\ separators.homograph_extractor.word_separator_base = space_index
    /\ separators.homograph_cost = separators.homograph_extractor

\* the report files of a step in mode m
ReportFiles(m) ==
    IF m = HOMOGRAPH THEN {"wer_file", "homograph_stats_file"} ELSE {"wer_file"}

\* C20: a stage end writes interim reports exactly when it is a VALID stage
\* end with interim reports and metrics enabled, and then under the folder of
\* its step and epoch; it writes final reports only when it is a TEST stage
\* end (with metrics), and then to the flat configured paths; either way the
\* homograph report is among them exactly in HOMOGRAPH mode.  No report is
\* written anywhere else.
C20_ReportsByStageAndPath ==
    /\ last_end.stage # "NONE" =>
        /\ last_end.interim # {} <=>
                (/\ last_end.stage = VALID
                 /\ hparams.enable_interim_reports
                 /\ hparams.enable_metrics)
        /\ last_end.final # {} <=>
                (last_end.stage = TEST /\ hparams.enable_metrics)
        /\ \A r \in last_end.interim :
                r.folder = [interim |-> TRUE, name |-> last_end.of_step,
                            epoch |-> last_end.epoch]
        /\ \A r \in last_end.final :
                r.folder = [interim |-> FALSE, name |-> 0, epoch |-> NoEpoch]
        /\ \A w \in {last_end.interim, last_end.final} :
                w # {} => {r.file : r \in w} = ReportFiles(StepOf(last_end).mode)
    /\ \A r \in reports :
        /\ r.file \in ReportFiles(train_steps[r.of_step].mode)
        /\ r.folder.interim =>
                /\ hparams.enable_interim_reports
                /\ r.folder.name = r.of_step
                /\ r.folder.epoch \in 1..epoch_counter[r.of_step]
        /\ ~r.folder.interim =>
                /\ r.folder = [interim |-> FALSE, name |-> 0, epoch |-> NoEpoch]
                /\ counts[r.of_step].test_ends >= 1

\* the VALID stage end of the second epoch of a HOMOGRAPH step wrote its two
\* interim reports next to those of the first epoch
C20_Witness ==
    /\ last_end.stage = VALID
    /\ last_end.epoch = 2
    /\ StepOf(last_end).mode = HOMOGRAPH
    /\ Cardinality(last_end.interim) = 2
    /\ Cardinality(reports) = 4
    /\ \A r \in reports : r.folder.interim

\* C21 as claimed: every artifact exported after a step is keyed by the
\* minimization metric of that step's mode: PER_homograph for a HOMOGRAPH
\* step and PER for a NORMAL step.
C21_ExportKeyedByStepMode ==
    \A k \in 1..Len(exported) :
        exported[k].min_key =
            IF train_steps[exported[k].of_step].mode = HOMOGRAPH
            THEN "PER_homograph" ELSE "PER"

\* the scheduler the configuration designates for step i: the step's own
\* lr_annealing entry when it has one, the global hparams.lr_annealing otherwise
DesignatedScheduler(i) ==
    IF train_steps[i].lr_annealing # "absent"
    THEN train_steps[i].lr_annealing ELSE hparams.lr_annealing

\* C22 as claimed: the scheduler invoked for a step's annealing is the step's
\* own lr_annealing override when the step has one and the global annealer
\* otherwise, at every VALID stage end in epoch mode and after every TRAIN
\* batch in step mode.
C22_StepOverrideIsInvoked ==
    /\ (last_end.stage = VALID /\ hparams.lr_annealing_mode = "epoch") =>
            last_end.scheduler = DesignatedScheduler(last_end.of_step)
    /\ (last.stage = TRAIN /\ hparams.lr_annealing_mode = "step") =>
            last.scheduler = DesignatedScheduler(last.of_step)

\* C23: with an unsupported sorting mode the run fails in the data preparation
\* of the first step that is not skipped, with NotImplementedError: no
\* G2PBrain is ever created, no stage starts, no batch is forwarded, nothing is
\* checkpointed, reported or exported, and only steps with nothing but skipped
\* steps before them are ever reached.
C23_UnsupportedSortingFatalAtSetup ==
    hparams.sorting \notin SupportedSorting =>
        /\ brain = NoBrain
        /\ \A i \in 1..NumSteps :
            /\ counts[i].data_built = 0 /\ counts[i].brains = 0
            /\ counts[i].stage_starts = 0 /\ counts[i].forward = 0
            /\ counts[i].saves = 0 /\ counts[i].reports = 0
            /\ counts[i].exports = 0 /\ counts[i].tests = 0
        /\ checkpoints = {} /\ reports = {} /\ exported = <<>>
        /\ pc \in {"loop", "failed", "done"}
        /\ \A k \in 1..Len(started) :
            \A j \in 1..(started[k] - 1) : Skipped(j)
        /\ pc = "failed" =>
            /\ err = "NotImplementedError"
            /\ ~Skipped(step)
            /\ started[Len(started)] = step
        /\ pc = "done" => \A i \in 1..NumSteps : Skipped(i)

\* the first step fails in data preparation while a later step with an epoch
\* budget is still configured
C23_Witness ==
    /\ hparams.sorting \notin SupportedSorting
    /\ pc = "failed" /\ err = "NotImplementedError"
    /\ step < NumSteps
    /\ ~Skipped(step + 1)

\* C24: a checkpoint save or a report write that fails at a stage end ends the
\* run: from then on no epoch, stage, batch, evaluation, export or training
\* step is started and nothing more is saved or written.
C24_IOFailureTerminatesRun ==
    /\ [](err = "OSError" => pc = "failed")
    /\ [][err = "OSError" =>
            UNCHANGED <<pc, step, started, epoch_counter, stage, epoch,
                        batch_idx, call, counts, checkpoints, reports,
                        exported, loaded, optimizer>>]_vars

\* a save or a report write failed at the VALID stage end of a step's first
\* epoch, while that step has an epoch left and another step is configured
C24_Witness ==
    /\ err = "OSError" /\ pc = "failed"
    /\ stage = VALID
    /\ epoch_counter[step] < train_steps[step].limit
    /\ step < NumSteps
    /\ ~Skipped(step + 1)

C26_AnnealingValueMatchesStrategy ==
    (last_end.stage = VALID /\ last_end.scheduler # "none") =>
        /\ last_end.scheduler = "newbob" =>
            /\ last_end.annealed_with = "per"
            /\ last_end.annealed_value = last_end.stats.PER
        /\ last_end.scheduler = "plateau" =>
            last_end.annealed_value = last_end.stage_loss
        /\ last_end.scheduler \notin {"newbob", "plateau"} =>
            last_end.annealed_value = last_end.epoch

\* C27: for every batch of every stage and epoch, the epoch of the cutoff
\* included, the forward pass has produced CTC log-probabilities exactly when
\* the loss computed from it includes the CTC term, so the CTC cost is never
\* computed from missing log-probabilities.
C27_CtcLogprobsIffCtcTerm ==
    /\ last.stage # "NONE" => (last.ctc_logprobs <=> last.ctc)
    /\ err # "TypeError"

\* a TRAIN batch of the cutoff epoch itself (epoch 2 of a step with
\* ctc_epochs = 2): the head was run and the term is in the loss
C27_Witness ==
    /\ last.stage = TRAIN
    /\ last.epoch = 2
    /\ StepOf(last).ctc_epochs = 2
    /\ last.ctc_logprobs /\ last.ctc

\* C28: no stage end handler reads a value that was not assigned, whatever the
\* stage, mode, scheduler and enable_metrics: no handler fails on a missing
\* attribute; the error rate is handed to the scheduler, logged or stored only
\* when metrics are enabled, and is then a computed value; the homograph
\* statistics are logged only for a HOMOGRAPH step with metrics; and the
\* train_loss read at a VALID stage end is the loss of the TRAIN stage of the
\* same epoch, which no VALID batch changes.
C28_StageEndReadsOnlyAssigned ==
    /\ [](/\ err # "AttributeError"
          /\ (pc = "stage_start" /\ stage = VALID) =>
                /\ last_end.stage = TRAIN
                /\ last_end.epoch = epoch
                /\ brain.train_loss = last_end.stage_loss
                /\ brain.train_loss # NoVal
          /\ last_end.stage # "NONE" =>
                /\ last_end.annealed_with # "none" =>
                        last_end.annealed_value # NoVal
                /\ last_end.annealed_with = "per" => hparams.enable_metrics
                /\ last_end.stats.PER # NoVal <=>
                        (last_end.stage # TRAIN /\ hparams.enable_metrics)
                /\ last_end.stats.PER_homograph # NoVal <=>
                        (/\ last_end.stage = VALID /\ hparams.enable_metrics
                         /\ StepOf(last_end).mode = HOMOGRAPH)
                /\ last_end.stage = VALID =>
                        /\ last_end.stats.train_loss # NoVal
                        /\ last_end.of_step = step =>
                            last_end.stats.train_loss = brain.train_loss)
    /\ [][(stage = VALID /\ pc = "batches" /\ call = "fit") =>
            brain'.train_loss = brain.train_loss]_vars

\* the VALID stage end of a HOMOGRAPH step with a NewBob scheduler, TensorBoard
\* samples on and metrics off: no error rate exists, and the scheduler was
\* given the epoch
C28_Witness ==
    /\ last_end.stage = VALID
    /\ StepOf(last_end).mode = HOMOGRAPH
    /\ hparams.lr_annealing = "newbob"
    /\ ~hparams.enable_metrics
    /\ hparams.use_tensorboard
    /\ last_end.samples
    /\ last_end.annealed_with = "epoch"
    /\ last_end.stats.PER = NoVal

\* C29 as claimed: a checkpoint save made while a HOMOGRAPH step runs deletes
\* only checkpoints whose metadata contains PER_homograph, in every
\* configuration.
C29_HomographSavesDeleteOnlyHomograph ==
    [][brain.mode = HOMOGRAPH =>
        \A c \in checkpoints \ checkpoints' : c.meta.PER_homograph # NoVal]_vars

\* C29, amended: with metrics enabled, a checkpoint save made while a
\* HOMOGRAPH step runs deletes only checkpoints whose metadata contains
\* PER_homograph, so every checkpoint an earlier NORMAL step saved (metadata
\* with PER only) is still there after any number of such saves.
C29_HomographSavesKeepNormalCheckpoints ==
    [][(brain.mode = HOMOGRAPH /\ brain.enable_metrics) =>
        \A c \in checkpoints \ checkpoints' : c.meta.PER_homograph # NoVal]_vars

\* the HOMOGRAPH second step has saved at least twice and one of its own
\* checkpoints has been deleted, while the checkpoint of the NORMAL first step
\* is still there
C29_Witness ==
    /\ step = 2 /\ brain.mode = HOMOGRAPH /\ brain.enable_metrics
    /\ train_steps[1].mode = NORMAL
    /\ counts[2].saves >= 2
    /\ Cardinality({c \in checkpoints : c.of_step = 2}) < counts[2].saves
    /\ \E c \in checkpoints :
        /\ c.of_step = 1
        /\ c.meta.PER # NoVal /\ c.meta.PER_homograph = NoVal

\* C30 as claimed: whenever a step that has saved a checkpoint is revalidated
\* or tested, the checkpoint loaded for the evaluation is one that this same
\* step saved, the best under the step's own minimization key.
C30_EvaluationLoadsOwnBestCheckpoint ==
    (call \in {"revalidate", "test"} /\ counts[step].saves >= 1) =>
        /\ loaded # 0
        /\ CkptById(checkpoints, loaded).of_step = step
        /\ CkptById(checkpoints, loaded) \in
                Best({c \in checkpoints : c.of_step = step}, min_keys(brain))

\* the order hparams["sorting"] puts the N ids of a file in (the duration of
\* an item is its id): by id, by id reversed, or the file order
SortedOrder(file) ==
    IF hparams.sorting = "ascending" THEN [k \in 1..Len(file) |-> k]
    ELSE IF hparams.sorting = "descending"
    THEN [k \in 1..Len(file) |-> Len(file) + 1 - k]
    ELSE file

\* C31: the dataset sort_data returns for a step with sample count n, from a
\* file of N ids, has no id twice and only ids of the file; with a count of
\* at least 1 it has min(n, N) ids, which without random selection are the
\* first min(n, N) ids of the sorted order; with no count or a count of zero
\* it has all N ids, in the sorted order.
C31_SubsampleIsPrefixOfSortedOrder ==
    train_data.of_step # 0 =>
        LET ts == train_steps[train_data.of_step]
            ids == train_data.sampled
            file == train_data.file
            N == Len(file)
            n == ts.sample
        IN  /\ \A j, k \in 1..Len(ids) : j # k => ids[j] # ids[k]
            /\ \A k \in 1..Len(ids) : \E j \in 1..N : ids[k] = file[j]
            /\ n \in {NoSample, 0} =>
                    /\ Len(ids) = N
                    /\ \A k \in 1..N : ids[k] = SortedOrder(file)[k]
            /\ n >= 1 => Len(ids) = Min(n, N)
            /\ (n >= 1 /\ ~ts.sample_random) =>
                    \A k \in 1..Len(ids) : ids[k] = SortedOrder(file)[k]

\* a step with a count of 2 and random selection, under descending sorting of
\* a file of more than 2 ids: two distinct ids were kept and they are not the
\* first two of the sorted order
C31_Witness ==
    /\ train_data.of_step # 0
    /\ hparams.sorting = "descending"
    /\ train_steps[train_data.of_step].sample = 2
    /\ train_steps[train_data.of_step].sample_random
    /\ Len(train_data.file) > 2
    /\ Len(train_data.sampled) = 2
    /\ train_data.sampled[1] # SortedOrder(train_data.file)[1]

====
